---- MODULE Spec2Model ----
(***************************************************************************)
(* DailyAI: the deduplication / ranking core and the daily run around it.  *)
(*                                                                         *)
(*   src/processors/deduplication.py   TweetDeduplicator                   *)
(*   src/processors/ranking.py         TweetRanker                         *)
(*   src/storage/db_manager.py         DatabaseManager                     *)
(*   src/main.py                       run_daily_collection                *)
(*                                                                         *)
(* Three specifications share the variables:                               *)
(*   SpecDedup  calls of TweetDeduplicator.deduplicate on one instance     *)
(*   SpecRank   calls of TweetRanker.rank on one Ranker                    *)
(*   Spec       run_daily_collection, statement by statement, run after    *)
(*              run                                                        *)
(***************************************************************************)
EXTENDS Integers, Sequences, FiniteSets, TLC

\* ------------------------------------------------------------------ bounds

\* tweet ids are 1..MaxId
MaxId == 2
\* longest input of deduplicate
MaxDedupLen == 3
\* longest freely chosen part of a batch handed to rank
MaxBatch == 3
\* rank calls on one Ranker
MaxCalls == 2
\* daily runs in one process
MaxRuns == 2
\* report.daily_tweet_count
MaxTopK == 1
\* largest count of likes, retweets, replies or quotes of the tweets whose
\* scores are compared
MaxCount == 1
\* longest list handed to save_tweets on its own
MaxSaveLen == 2
\* TweetRankers constructed from one ranking_config
MaxRankers == 2
\* largest retry_count handed to make_api_request (its default is 3)
MaxRetry == 3
\* the instants of one second that a timestamp tells apart
SubSecond == 2
\* the seconds of the timestamps handed to save_report on its own are
\* 0..MaxSecond
MaxSecond == 2

\* ------------------------------------------------------------- the values

Ids == 1..MaxId

\* Python's None for a field that holds a number or a timestamp
None == -1

\* a created_at that is no datetime: a string the source could not parse
NotADate == -2

\* isinstance(created_at, datetime)
IsDatetime(created_at) == created_at \notin {None, NotADate}

\* rank_score: a rational num/den; den = 0 stands for None (Tweet.rank_score
\* is Optional[float], default None)
NoScore == [num |-> 0, den |-> 0]

\* rank_reason: None is the empty sequence
NoReason == << >>

\* models/tweet.py Tweet: the fields the core reads or writes
Tweet(id, content, created_at, likes, retweets, replies, quotes) ==
    [id |-> id, author |-> "acct", content |-> content,
     created_at |-> created_at, url |-> "url",
     likes |-> likes, retweets |-> retweets, replies |-> replies,
     quotes |-> quotes, rank_score |-> NoScore, rank_reason |-> NoReason]

\* two texts, to tell two tweets of one id apart
TextA == <<"A", "I">>
TextB == <<"n", "e", "w", "s">>

\* the ids of a list of tweets, in order
IdsOf(tweets) == [i \in 1..Len(tweets) |-> tweets[i].id]

\* all sequences over S of length at most n
SeqUpTo(S, n) == UNION {[1..k -> S] : k \in 0..n}

VARIABLES
    \* DatabaseManager: the sqlite file
    store,        \* table tweets: id -> row
    reports,      \* table reports: id -> row
    dbOk,         \* FALSE while sqlite3 raises (file locked, unreadable)
    clock,        \* datetime.now(), in hours
    \* one TweetDeduplicator and its caller
    has_db,       \* self.db_manager is not None
    seen_ids,     \* self.seen_ids
    dd_pc,        \* "idle", "called" (after deduplicate), "again" (after
                  \* deduplicate on its own output), "saved"
    dd_arg,       \* the list handed to the first call, as it was then
    dd_in,        \* that same list object after the call
    dd_out,       \* what that call returned
    dd_oracle,    \* the ids the oracle reported duplicate during that call
    dd_again,     \* what deduplicate returned on dd_out
    dd_oracle2,   \* the ids the oracle reported duplicate during that call
    dd_asked,     \* the ids the first call asked the oracle about, in order
    \* one TweetRanker and its caller
    config,       \* ranking_config without its weights
    weights,      \* self.weights: key -> num, all over one denominator den
    config_weights,  \* ranking_config['weights'], the dict __init__ was
                     \* handed: self.weights is that same dict
    rankers,      \* TweetRankers constructed from ranking_config so far
    rk_pc,        \* "idle", "returned", "raised"
    rk_calls,     \* rank calls made so far
    rk_arg,       \* the list handed to the last rank call, as it was then
    rk_in,        \* that same list afterwards (rank writes into its items)
    rk_out,       \* what the call returned (empty when it raised)
    rk_order,     \* rk_out[k] is the item that stood at rk_arg[rk_order[k]]
    rk_w0,        \* self.weights when the call began
    rk_now,       \* rk_now[i]: datetime.now() when item i was scored
    \* run_daily_collection and what it is handed
    report_config,   \* config['report']: daily_tweet_count, deepseek.enabled
    run_pc,          \* "idle", then the statement just executed: "collected",
                     \* "ranked", "analyzed", "tweets_saved", "report_saved"
    runs,            \* runs begun so far
    run_raw,         \* the locals of the run in progress: raw_tweets,
    run_ranked,      \* ranked_tweets,
    run_top,         \* top_tweets,
    run_report,      \* analysis_report
    outbox,          \* the mail the SMTP server accepted from the last run
                     \* that came to its end, if it accepted one
    \* a caller of DatabaseManager.save_tweets on its own
    sv_arg,       \* the list handed to the last save_tweets call
    sv_result,    \* what that call returned
    sv_asked,     \* the id handed to the last is_duplicate_tweet call
    sv_answer,    \* what that call returned
    \* a caller of DatabaseManager.save_report on its own
    rp_date,      \* the timestamp handed to the last save_report call
    rp_result,    \* what that call returned
    \* one call of make_api_request
    api_pc,       \* "idle", "looping" (inside the for loop), "returned"
    api_retry,    \* retry_count
    api_attempt,  \* attempt, the loop variable
    api_log,      \* what requests.request did on each attempt so far
    api_result    \* what the call returned

dbVars == <<store, reports, dbOk, clock>>
ddVars == <<has_db, seen_ids, dd_pc, dd_arg, dd_in, dd_out, dd_oracle, dd_again,
           dd_oracle2, dd_asked>>
rkVars == <<config, weights, config_weights, rankers, rk_pc, rk_calls, rk_arg,
           rk_in, rk_out, rk_order, rk_w0, rk_now>>
plVars == <<report_config, run_pc, runs, run_raw, run_ranked, run_top,
           run_report, outbox>>
svVars == <<sv_arg, sv_result, sv_asked, sv_answer, rp_date, rp_result>>
apiVars == <<api_pc, api_retry, api_attempt, api_log, api_result>>
vars == <<dbVars, ddVars, rkVars, plVars, svVars, apiVars>>

\* ------------------------------------------------------- DatabaseManager

\* the database as one value
Db(tweets, reps, ok) == [tweets |-> tweets, reports |-> reps, ok |-> ok]

\* the row save_tweets inserts for a tweet (INSERT INTO tweets ...)
NewRow(tweet, collection_date) ==
    [author |-> tweet.author, content |-> tweet.content,
     created_at |-> tweet.created_at, url |-> tweet.url,
     likes |-> tweet.likes, retweets |-> tweet.retweets,
     replies |-> tweet.replies, quotes |-> tweet.quotes,
     rank_score |-> tweet.rank_score, rank_reason |-> tweet.rank_reason,
     collection_date |-> collection_date]

\* the update as a replacement of the whole row by the tweet's
UpdatedRow_replaces(row, tweet, collection_date) ==
    NewRow(tweet, collection_date)

\* the row save_tweets leaves for an id it finds (UPDATE tweets SET ...)
UpdatedRow(row, tweet, collection_date) ==
    [row EXCEPT !.likes = tweet.likes, !.retweets = tweet.retweets,
                !.replies = tweet.replies, !.quotes = tweet.quotes,
                !.rank_score = tweet.rank_score,
                !.rank_reason = tweet.rank_reason,
                !.collection_date = collection_date]

\* the for loop of save_tweets from index i on, inside one transaction;
\* tx = [tweets: the table as the transaction sees it, ok: no statement
\* has raised]. created_at is NOT NULL: inserting None raises.
RECURSIVE SaveLoop(_, _, _, _)
SaveLoop(tweets, i, tx, collection_date) ==
    IF i > Len(tweets) \/ ~tx.ok THEN tx
    ELSE LET tweet == tweets[i] IN
         IF tweet.id \in DOMAIN tx.tweets
         THEN SaveLoop(tweets, i + 1,
                  [tx EXCEPT !.tweets[tweet.id] =
                      UpdatedRow(tx.tweets[tweet.id], tweet, collection_date)],
                  collection_date)
         ELSE IF tweet.created_at = None
              THEN [tx EXCEPT !.ok = FALSE]
              ELSE SaveLoop(tweets, i + 1,
                       [tx EXCEPT !.tweets =
                           [k \in DOMAIN tx.tweets \cup {tweet.id} |->
                              IF k = tweet.id
                              THEN NewRow(tweet, collection_date)
                              ELSE tx.tweets[k]]],
                       collection_date)

\* DatabaseManager.save_tweets(tweets) at time `now`: [result, db]. Nothing
\* is committed unless every statement succeeded.
save_tweets(db, tweets, now) ==
    IF tweets = << >> THEN [result |-> FALSE, db |-> db]
    ELSE IF ~db.ok THEN [result |-> FALSE, db |-> db]
    ELSE LET tx == SaveLoop(tweets, 1, [tweets |-> db.tweets, ok |-> TRUE], now)
         IN IF tx.ok
            THEN [result |-> TRUE, db |-> [db EXCEPT !.tweets = tx.tweets]]
            ELSE [result |-> FALSE, db |-> db]

\* f"report_{date.strftime('%Y%m%d_%H%M%S')}": a timestamp counts the
\* instants since the model's epoch, SubSecond of them to the second, and
\* the id names its second
ReportId(date) == date \div SubSecond

\* the timestamp at which hour h begins
HourStart(h) == h * 3600 * SubSecond

\* save_report with INSERT OR REPLACE in the place of INSERT
save_report_replaces(db, analysis, date) ==
    IF ~db.ok THEN [result |-> None, db |-> db]
    ELSE [result |-> ReportId(date),
          db |-> [db EXCEPT !.reports =
                     [k \in DOMAIN db.reports \cup {ReportId(date)} |->
                        IF k = ReportId(date)
                        THEN [date |-> date, analysis |-> analysis,
                              summary |-> ""]
                        ELSE db.reports[k]]]]

\* DatabaseManager.save_report(analysis, date): [result: the report id or
\* None, db]. id is the PRIMARY KEY, so a second INSERT of one id raises,
\* and every exception is logged and answered None.
save_report(db, analysis, date) ==
    IF ~db.ok \/ ReportId(date) \in DOMAIN db.reports
    THEN [result |-> None, db |-> db]
    ELSE [result |-> ReportId(date),
          db |-> [db EXCEPT !.reports =
                     [k \in DOMAIN db.reports \cup {ReportId(date)} |->
                        IF k = ReportId(date)
                        THEN [date |-> date, analysis |-> analysis,
                              summary |-> ""]
                        ELSE db.reports[k]]]]

\* is_duplicate_tweet that answers False whatever the table holds
is_duplicate_tweet_unseen(db, tweet_id) == [result |-> FALSE, db |-> db]

\* is_duplicate_tweet with a write to the table it only reads
is_duplicate_tweet_writes(db, tweet_id) ==
    [result |-> db.ok /\ tweet_id \in DOMAIN db.tweets,
     db |-> IF db.ok /\ tweet_id \notin DOMAIN db.tweets
            THEN [db EXCEPT !.tweets =
                     [i \in DOMAIN db.tweets \cup {tweet_id} |->
                        IF i \in DOMAIN db.tweets THEN db.tweets[i]
                        ELSE NewRow(Tweet(tweet_id, TextA, 0, 0, 0, 0, 0), 0)]]
            ELSE db]

\* is_duplicate_tweet: SELECT id FROM tweets WHERE id = ?; result is not
\* None; any sqlite error is logged and answered False. No commit.
is_duplicate_tweet(db, tweet_id) ==
    [result |-> IF db.ok THEN tweet_id \in DOMAIN db.tweets ELSE FALSE,
     db |-> db]

\* ----------------------------------------------------- TweetDeduplicator

\* the state of one call: the list being built, self.seen_ids, the
\* database, the caller's list, and the ids is_duplicate_tweet was called
\* with so far
CallState(tweets, seen, db) ==
    [out |-> << >>, seen |-> seen, db |-> db, tweets |-> tweets,
     asked |-> << >>]

\* the for loop of deduplicate from index i on
RECURSIVE DedupLoop(_, _, _)
DedupLoop(i, st, use_db) ==
    IF i > Len(st.tweets) THEN st
    ELSE LET tweet == st.tweets[i] IN
         IF tweet.id \in st.seen
         THEN DedupLoop(i + 1, st, use_db)
         ELSE LET q == IF use_db THEN is_duplicate_tweet(st.db, tweet.id)
                       ELSE [result |-> FALSE, db |-> st.db]
                  asked == IF use_db THEN Append(st.asked, tweet.id)
                           ELSE st.asked
              IN IF q.result
                 THEN DedupLoop(i + 1,
                                [st EXCEPT !.db = q.db, !.asked = asked],
                                use_db)
                 ELSE DedupLoop(i + 1,
                                [st EXCEPT !.out = Append(@, tweet),
                                           !.seen = @ \cup {tweet.id},
                                           !.db = q.db, !.asked = asked],
                                use_db)

\* deduplicate without the reset of self.seen_ids
deduplicate_no_reset(tweets, seen, db, use_db) ==
    IF tweets = << >> THEN CallState(tweets, seen, db)
    ELSE DedupLoop(1, CallState(tweets, seen, db), use_db)

\* deduplicate keeping the last occurrence of an id instead of the first
RECURSIVE KeepLast(_, _)
KeepLast(tweets, i) ==
    IF i > Len(tweets) THEN << >>
    ELSE IF \E j \in (i + 1)..Len(tweets) : tweets[j].id = tweets[i].id
         THEN KeepLast(tweets, i + 1)
         ELSE <<tweets[i]>> \o KeepLast(tweets, i + 1)
deduplicate_keep_last(tweets, seen, db, use_db) ==
    [DedupLoop(1, CallState(KeepLast(tweets, 1), {}, db), use_db)
        EXCEPT !.tweets = tweets]

\* deduplicate that never asks the database
deduplicate_no_oracle(tweets, seen, db, use_db) ==
    IF tweets = << >> THEN CallState(tweets, seen, db)
    ELSE DedupLoop(1, CallState(tweets, {}, db), FALSE)

\* deduplicate that asks the database although no db_manager was given
deduplicate_always_oracle(tweets, seen, db, use_db) ==
    IF tweets = << >> THEN CallState(tweets, seen, db)
    ELSE DedupLoop(1, CallState(tweets, {}, db), TRUE)

\* deduplicate that returns the survivors last first
RECURSIVE Reverse(_)
Reverse(s) == IF s = << >> THEN << >> ELSE Append(Reverse(Tail(s)), Head(s))
deduplicate_reversed(tweets, seen, db, use_db) ==
    [DedupLoop(1, CallState(tweets, {}, db), use_db) EXCEPT !.out = Reverse(@)]

\* TweetDeduplicator.deduplicate(tweets) on an instance whose seen_ids is
\* `seen`, with the database `db` behind self.db_manager when use_db:
\* [out: the list returned, seen: self.seen_ids afterwards, db, tweets: the
\* caller's list afterwards]
deduplicate(tweets, seen, db, use_db) ==
    IF tweets = << >> THEN CallState(tweets, seen, db)
    ELSE DedupLoop(1, CallState(tweets, {}, db), use_db)

\* what the oracle answers True for, as the Deduplicator sees it
OracleIds(db, use_db) ==
    IF use_db THEN {i \in Ids : is_duplicate_tweet(db, i).result} ELSE {}

\* ------------------------------------------------------------ arithmetic

RECURSIVE GCD(_, _)
GCD(a, b) == IF b = 0 THEN a ELSE GCD(b, a % b)

LCM(a, b) == (a \div GCD(a, b)) * b

\* the sum of f over the finite set S
RECURSIVE SumOver(_, _)
SumOver(S, f) ==
    IF S = {} THEN 0
    ELSE LET x == CHOOSE y \in S : TRUE IN f[x] + SumOver(S \ {x}, f)

\* the gcd of the values of f and of d (d > 0)
RECURSIVE GCDOver(_, _, _)
GCDOver(S, f, d) ==
    IF S = {} THEN d
    ELSE LET x == CHOOSE y \in S : TRUE
         IN GCDOver(S \ {x}, f, GCD(d, IF f[x] < 0 THEN -f[x] ELSE f[x]))

\* a rational num/den, den > 0, in lowest terms
Rat(num, den) ==
    LET g == GCD(IF num < 0 THEN -num ELSE num, den)
    IN [num |-> num \div g, den |-> den \div g]

RatAdd(a, b) ==
    LET d == LCM(a.den, b.den)
    IN Rat(a.num * (d \div a.den) + b.num * (d \div b.den), d)
RatMul(a, b) == Rat(a.num * b.num, a.den * b.den)
RatScale(a, n) == Rat(a.num * n, a.den)
RatDiv(a, n) == Rat(a.num, a.den * n)
RatZero == [num |-> 0, den |-> 1]

\* a >= b for rationals
RatGE(a, b) ==
    IF a.den = b.den THEN a.num >= b.num
    ELSE LET d == LCM(a.den, b.den)
         IN a.num * (d \div a.den) >= b.num * (d \div b.den)

\* ----------------------------------------------------------- TweetRanker

WeightKeys == {"likes", "retweets", "replies", "quotes", "recency",
               "user_influence", "keywords_match"}

\* the second arguments of self.weights.get(key, default), in tenths
TenthsDefault(key) ==
    CASE key = "likes" -> 3
      [] key = "retweets" -> 4
      [] key = "replies" -> 1
      [] key = "quotes" -> 2
      [] key = "recency" -> 5
      [] key = "user_influence" -> 6
      [] key = "keywords_match" -> 7

\* a denominator for every value self.weights.get can return: that of the
\* mapping, and the tenths of the defaults when a key is absent
WeightDen(w) ==
    IF DOMAIN w.num = WeightKeys THEN w.den ELSE LCM(w.den, 10)

\* self.weights.get(key, default) with 0 as the default of every key
WeightGet_zero_default(w, key) ==
    IF key \in DOMAIN w.num THEN w.num[key] * (WeightDen(w) \div w.den) ELSE 0

\* self.weights.get(key, default), as a numerator over WeightDen(w)
WeightGet(w, key) ==
    IF key \in DOMAIN w.num THEN w.num[key] * (WeightDen(w) \div w.den)
    ELSE TenthsDefault(key) * (WeightDen(w) \div 10)

\* math.exp(-0.01 * age_hours) in thousandths, for whole hours
ExpScale == 1000
ExpTable ==
    <<1000, 990, 980, 970, 961, 951, 942, 932, 923, 914, 905, 896, 887, 878,
      869, 861, 852, 844, 835, 827, 819, 811, 803, 795, 787>>
\* a recency factor that does not decay
ExpDecay_flat(age_hours) == ExpTable[1]

ExpDecay(age_hours) == ExpTable[age_hours + 1]

\* str.lower() on the letters the texts use
LowerChar(c) ==
    CASE c = "A" -> "a"
      [] c = "I" -> "i"
      [] c = "G" -> "g"
      [] c = "P" -> "p"
      [] c = "T" -> "t"
      [] OTHER -> c
\* a content_lower and keyword.lower() that leave the case as it is
Lower_keeps_case(str) == str

Lower(str) == [i \in 1..Len(str) |-> LowerChar(str[i])]

\* needle in hay, for strings
Contains(hay, needle) ==
    \E k \in 0..(Len(hay) - Len(needle)) :
        \A i \in 1..Len(needle) : hay[k + i] = needle[i]

\* len(self.config['keywords']) where the loop divides by it
KeywordCount(cfg) ==
    IF cfg.has_keywords /\ cfg.keywords # << >> THEN Len(cfg.keywords) ELSE 1

\* the denominator of every score computed with the weights w: weights
\* times thousandths (exp) divided by the number of keywords
ScoreDen(w, cfg) == WeightDen(w) * ExpScale * KeywordCount(cfg)

\* the for loop over self.config['keywords'] from index i on; the scores
\* are numerators over ScoreDen, so keywords_weight / len(keywords) is
\* keywords_weight * ExpScale
RECURSIVE KeywordsLoop(_, _, _, _, _)
KeywordsLoop(keywords, i, content_lower, keywords_weight, keywords_score) ==
    IF i > Len(keywords) THEN keywords_score
    ELSE KeywordsLoop(keywords, i + 1, content_lower, keywords_weight,
             IF Contains(content_lower, Lower(keywords[i]))
             THEN keywords_score + keywords_weight * ExpScale
             ELSE keywords_score)

\* a component value num/den as f"{score:.2f}" prints it, in hundredths
\* (round half to even on the exact value)
Round2(num, den) ==
    LET n == (num % den) * 100
        q == (num \div den) * 100 + n \div den
        r == n % den
    IN IF 2 * r > den THEN q + 1
       ELSE IF 2 * r < den THEN q
       ELSE IF q % 2 = 0 THEN q ELSE q + 1

\* the reason string without the rstrip(", ")
ReasonOf_unstripped(components, den) ==
    [i \in 1..Len(components) |->
        [factor |-> components[i].factor,
         value |-> Round2(components[i].score, den),
         sep |-> ", "]]

\* the reason string: "factor: value, " per component, in the order the
\* components were put into score_components, then rstrip(", ")
ReasonOf(components, den) ==
    LET parts == [i \in 1..Len(components) |->
                    [factor |-> components[i].factor,
                     value |-> Round2(components[i].score, den),
                     sep |-> ", "]]
    IN IF parts = << >> THEN parts
       ELSE [parts EXCEPT ![Len(parts)].sep = ""]

\* score_components with a created_at that is no datetime counted as now
ScoreComponents_undated_fresh(tweet, w, cfg, now) ==
    LET unit == ExpScale * KeywordCount(cfg)
        engagement_score ==
            (WeightGet(w, "likes") * tweet.likes
             + WeightGet(w, "retweets") * tweet.retweets
             + WeightGet(w, "replies") * tweet.replies
             + WeightGet(w, "quotes") * tweet.quotes) * unit
        recency_weight == WeightGet(w, "recency")
        recency_score ==
            IF IsDatetime(tweet.created_at)
            THEN recency_weight * ExpDecay(now - tweet.created_at)
                 * KeywordCount(cfg)
            ELSE recency_weight * ExpDecay(0) * KeywordCount(cfg)
        influence_score == WeightGet(w, "user_influence") * unit
        keywords_weight == WeightGet(w, "keywords_match")
        keywords_score ==
            IF cfg.has_keywords
            THEN KeywordsLoop(cfg.keywords, 1, Lower(tweet.content),
                              keywords_weight, 0)
            ELSE 0
    IN <<[factor |-> "engagement", score |-> engagement_score],
         [factor |-> "recency", score |-> recency_score],
         [factor |-> "influence", score |-> influence_score],
         [factor |-> "keywords", score |-> keywords_score]>>

\* score_components of one tweet, in insertion order, as numerators over
\* ScoreDen(w, cfg)
ScoreComponents(tweet, w, cfg, now) ==
    LET unit == ExpScale * KeywordCount(cfg)
        engagement_score ==
            (WeightGet(w, "likes") * tweet.likes
             + WeightGet(w, "retweets") * tweet.retweets
             + WeightGet(w, "replies") * tweet.replies
             + WeightGet(w, "quotes") * tweet.quotes) * unit
        recency_weight == WeightGet(w, "recency")
        recency_score ==
            IF IsDatetime(tweet.created_at)
            THEN recency_weight * ExpDecay(now - tweet.created_at)
                 * KeywordCount(cfg)
            ELSE 0
        influence_score == WeightGet(w, "user_influence") * unit
        keywords_weight == WeightGet(w, "keywords_match")
        keywords_score ==
            IF cfg.has_keywords
            THEN KeywordsLoop(cfg.keywords, 1, Lower(tweet.content),
                              keywords_weight, 0)
            ELSE 0
    IN <<[factor |-> "engagement", score |-> engagement_score],
         [factor |-> "recency", score |-> recency_score],
         [factor |-> "influence", score |-> influence_score],
         [factor |-> "keywords", score |-> keywords_score]>>

\* sum(score_components.values())
RECURSIVE SumComponents(_, _)
SumComponents(components, i) ==
    IF i > Len(components) THEN 0
    ELSE components[i].score + SumComponents(components, i + 1)

\* (total_score, reason) without the influence component in the sum
ScoreAndReason_no_influence(components, den) ==
    [score |-> [num |-> SumComponents(SelectSeq(components,
                            LAMBDA c : c.factor # "influence"), 1),
                den |-> den],
     reason |-> ReasonOf(components, den)]

\* (total_score, reason.rstrip(", ")) from score_components
ScoreAndReason(components, den) ==
    [score |-> [num |-> SumComponents(components, 1), den |-> den],
     reason |-> ReasonOf(components, den)]

\* TweetRanker._calculate_score(tweet) at time now: (total_score, reason)
calculate_score(tweet, w, cfg, now) ==
    CHOOSE r \in {ScoreAndReason(components, ScoreDen(w, cfg)) :
                    components \in {ScoreComponents(tweet, w, cfg, now)}} : TRUE

\* an engagement field that arithmetic raises TypeError on
Unscorable(tweet) ==
    None \in {tweet.likes, tweet.retweets, tweet.replies, tweet.quotes}

\* tweet.rank_score = score; tweet.rank_reason = reason
Scored(tweet, r) ==
    [tweet EXCEPT !.rank_score = r.score, !.rank_reason = r.reason]

\* the scoring loop of rank: the list with every tweet scored, up to the
\* first tweet _calculate_score raises on
ScoreLoop(tweets, w, cfg, nows) ==
    LET bad == {i \in 1..Len(tweets) : Unscorable(tweets[i])}
        stop == IF bad = {} THEN Len(tweets) + 1
                ELSE CHOOSE i \in bad : \A j \in bad : i <= j
    IN [tweets |-> [i \in 1..Len(tweets) |->
                      IF i < stop
                      THEN Scored(tweets[i],
                                  calculate_score(tweets[i], w, cfg, nows[i]))
                      ELSE tweets[i]],
        ok |-> bad = {}]

\* key=lambda t: t.rank_score or 0
SortKey(tweet) ==
    IF tweet.rank_score.den = 0 THEN RatZero ELSE tweet.rank_score

\* the indices `order` with index i put behind every index whose key is at
\* least key[i]: one step of a stable descending sort
InsertStable(order, i, tweets) ==
    LET key == SortKey(tweets[i])
        ahead == {k \in 1..Len(order) : RatGE(SortKey(tweets[order[k]]), key)}
        pos == IF ahead = {} THEN 0
               ELSE CHOOSE k \in ahead : \A m \in ahead : m <= k
    IN SubSeq(order, 1, pos) \o <<i>> \o SubSeq(order, pos + 1, Len(order))

RECURSIVE SortFrom(_, _, _)
SortFrom(order, i, tweets) ==
    IF i > Len(tweets) THEN order
    ELSE SortFrom(InsertStable(order, i, tweets), i + 1, tweets)

\* an ascending stable sort, reversed: ties come out in reverse order
InsertAscending(order, i, tweets) ==
    LET key == SortKey(tweets[i])
        ahead == {k \in 1..Len(order) : RatGE(key, SortKey(tweets[order[k]]))}
        pos == IF ahead = {} THEN 0
               ELSE CHOOSE k \in ahead : \A m \in ahead : m <= k
    IN SubSeq(order, 1, pos) \o <<i>> \o SubSeq(order, pos + 1, Len(order))
RECURSIVE SortAscendingFrom(_, _, _)
SortAscendingFrom(order, i, tweets) ==
    IF i > Len(tweets) THEN order
    ELSE SortAscendingFrom(InsertAscending(order, i, tweets), i + 1, tweets)
SortedOrder_reversed_ascending(tweets) ==
    Reverse(SortAscendingFrom(<< >>, 1, tweets))

\* sorted without reverse=True
SortedOrder_ascending(tweets) == SortAscendingFrom(<< >>, 1, tweets)

\* sorted(tweets, key=..., reverse=True) as the indices into tweets: a
\* stable sort, and reverse=True keeps the order of equal keys
SortedOrder(tweets) == SortFrom(<< >>, 1, tweets)

\* program constants of rank
AutoLearnMinBatch == 5
TopN == 10

\* ranked_tweets[:n]
Prefix(seq, n) == SubSeq(seq, 1, IF Len(seq) < n THEN Len(seq) ELSE n)

\* the sum of one engagement field over a list
RECURSIVE SumField(_, _, _)
SumField(tweets, i, field) ==
    IF i > Len(tweets) THEN 0
    ELSE tweets[i][field] + SumField(tweets, i + 1, field)

EngagementKeys == <<"likes", "retweets", "replies", "quotes">>

\* the four `if avg_x > self.min_engagement: self.weights[x] += rate` from
\* the i-th on; st = [w, ok]: a key absent from self.weights raises KeyError
\* and leaves the earlier increments in place
RECURSIVE IncrementLoop(_, _, _, _)
IncrementLoop(i, st, top_tweets, cfg) ==
    IF i > Len(EngagementKeys) THEN st
    ELSE LET key == EngagementKeys[i] IN
         \* avg > min_engagement, the mean being sum / len
         IF SumField(top_tweets, 1, key) > cfg.min_engagement * Len(top_tweets)
         THEN IF key \notin DOMAIN st.w.num
              THEN [st EXCEPT !.ok = FALSE]
              ELSE IncrementLoop(i + 1,
                       [st EXCEPT !.w.num[key] = @ + cfg.lr_num * (st.w.den \div cfg.lr_den)],
                       top_tweets, cfg)
         ELSE IncrementLoop(i + 1, st, top_tweets, cfg)

\* the weights over a denominator that learning_rate divides
Rescaled(w, cfg) ==
    [num |-> [k \in DOMAIN w.num |-> w.num[k] * cfg.lr_den],
     den |-> w.den * cfg.lr_den]

\* the weights with numerators and denominator in lowest terms
Lowest(w) ==
    LET g == GCDOver(DOMAIN w.num, w.num, w.den)
    IN [num |-> [k \in DOMAIN w.num |-> w.num[k] \div g], den |-> w.den \div g]

\* _adjust_weights that normalizes only the four engagement weights
Normalized_engagement_only(w) ==
    LET keys == DOMAIN w.num \cap {"likes", "retweets", "replies", "quotes"}
        total == SumOver(keys, w.num)
    IN IF total > 0
       THEN [num |-> [k \in DOMAIN w.num |->
                        IF k \in keys THEN w.num[k] * w.den ELSE w.num[k] * total],
             den |-> total * w.den]
       ELSE w

\* total = sum(self.weights.values()); if total > 0: every weight /= total
Normalized(w) ==
    LET total == SumOver(DOMAIN w.num, w.num)
    IN IF total > 0 THEN [num |-> w.num, den |-> total] ELSE w

\* _adjust_weights dividing by the total without the test total > 0:
\* ZeroDivisionError when the weights sum to 0
adjust_weights_unguarded(top_tweets, w, cfg) ==
    IF top_tweets = << >> THEN [w |-> w, ok |-> TRUE]
    ELSE LET inc == IncrementLoop(1, [w |-> Rescaled(w, cfg), ok |-> TRUE],
                                  top_tweets, cfg)
         IN IF inc.ok /\ SumOver(DOMAIN inc.w.num, inc.w.num) # 0
            THEN [w |-> Lowest(Normalized(inc.w)), ok |-> TRUE]
            ELSE [w |-> Lowest(inc.w), ok |-> FALSE]

\* TweetRanker._adjust_weights(top_tweets): [w: self.weights afterwards,
\* ok: it returned]
adjust_weights(top_tweets, w, cfg) ==
    IF top_tweets = << >> THEN [w |-> w, ok |-> TRUE]
    ELSE LET inc == IncrementLoop(1, [w |-> Rescaled(w, cfg), ok |-> TRUE],
                                  top_tweets, cfg)
         IN IF inc.ok THEN [w |-> Lowest(Normalized(inc.w)), ok |-> TRUE]
            ELSE [w |-> Lowest(inc.w), ok |-> FALSE]

\* rank from the sort on with auto-learning from 5 items on
RankScored_learns_at_five(tweets, order, w, cfg) ==
    LET ranked_tweets == [k \in 1..Len(order) |-> tweets[order[k]]]
        adj == IF cfg.auto_learning /\ Len(tweets) >= AutoLearnMinBatch
               THEN adjust_weights(Prefix(ranked_tweets, TopN), w, cfg)
               ELSE [w |-> w, ok |-> TRUE]
    IN [tweets |-> tweets, order |-> order,
        ranked |-> IF adj.ok THEN ranked_tweets ELSE << >>,
        w |-> adj.w, ok |-> adj.ok]

\* rank from the sort on with ranked_tweets[0] read unguarded for the log
\* line: IndexError on an empty list
RankScored_unguarded_log(tweets, order, w, cfg) ==
    LET ranked_tweets == [k \in 1..Len(order) |-> tweets[order[k]]]
        adj == IF cfg.auto_learning /\ Len(tweets) > AutoLearnMinBatch
               THEN adjust_weights(Prefix(ranked_tweets, TopN), w, cfg)
               ELSE [w |-> w, ok |-> TRUE]
    IN IF ranked_tweets = << >>
       THEN [tweets |-> tweets, order |-> order, ranked |-> << >>, w |-> w,
             ok |-> FALSE]
       ELSE [tweets |-> tweets, order |-> order,
             ranked |-> IF adj.ok THEN ranked_tweets ELSE << >>,
             w |-> adj.w, ok |-> adj.ok]

\* rank from the sort on with _adjust_weights handed the whole list
RankScored_learns_from_all(tweets, order, w, cfg) ==
    LET ranked_tweets == [k \in 1..Len(order) |-> tweets[order[k]]]
        adj == IF cfg.auto_learning /\ Len(tweets) > AutoLearnMinBatch
               THEN adjust_weights(ranked_tweets, w, cfg)
               ELSE [w |-> w, ok |-> TRUE]
    IN [tweets |-> tweets, order |-> order,
        ranked |-> IF adj.ok THEN ranked_tweets ELSE << >>,
        w |-> adj.w, ok |-> adj.ok]

\* rank from the sort on: tweets is the list with every tweet scored
RankScored(tweets, order, w, cfg) ==
    LET ranked_tweets == [k \in 1..Len(order) |-> tweets[order[k]]]
        adj == IF cfg.auto_learning /\ Len(tweets) > AutoLearnMinBatch
               THEN adjust_weights(Prefix(ranked_tweets, TopN), w, cfg)
               ELSE [w |-> w, ok |-> TRUE]
    IN [tweets |-> tweets, order |-> order,
        ranked |-> IF adj.ok THEN ranked_tweets ELSE << >>,
        w |-> adj.w, ok |-> adj.ok]

\* TweetRanker.rank(tweets) with the clock reading nows[i] while tweet i is
\* scored: [tweets: the caller's list afterwards, order, ranked: the list
\* returned, w: self.weights afterwards, ok: it returned]
rank(tweets, w, cfg, nows) ==
    CHOOSE r \in
        {IF ~scored.ok
         THEN [tweets |-> scored.tweets, order |-> << >>, ranked |-> << >>,
               w |-> w, ok |-> FALSE]
         ELSE RankScored(scored.tweets, SortedOrder(scored.tweets), w, cfg) :
            scored \in {ScoreLoop(tweets, w, cfg, nows)}} : TRUE

\* ------------------------------------------------- inputs and the start

\* the tweets handed to deduplicate: every id with either text
DedupTweets == {Tweet(i, c, 0, 0, 0, 0, 0) : i \in Ids, c \in {TextA, TextB}}
DedupInputs == SeqUpTo(DedupTweets, MaxDedupLen)

\* a text that holds both keywords
TextC == <<"G", "p", "t", "A", "i">>

\* the tweets handed to rank. The first two have the same age and the same
\* counts, so their scores are the same float unless a keyword tells them
\* apart; the third is newer.
RankTweets ==
    {Tweet(1, TextA, 0, 36, 18, 0, 0),
     Tweet(2, TextB, 0, 36, 18, 0, 0),
     Tweet(1, TextC, 2, 0, 0, 12, 12)}

\* the list p continued with copies of t up to the length n
Padded(p, t, n) == [i \in 1..n |-> IF i <= Len(p) THEN p[i] ELSE t]

\* the batches handed to rank: every short list, and the shorter of them
\* continued with one tweet up to a length at which auto-learning runs
RankInputs ==
    SeqUpTo(RankTweets, MaxBatch)
    \cup {Padded(p, t, AutoLearnMinBatch + 1) :
            p \in SeqUpTo(RankTweets, MaxBatch - 1), t \in RankTweets}

\* config['ranking'] without its weights: learning_rate 0.1,
\* min_engagement_threshold 10, keywords ["ai", "GPT"] or no such key
RankingConfig(auto_learning, has_keywords) ==
    [auto_learning |-> auto_learning, lr_num |-> 1, lr_den |-> 10,
     min_engagement |-> 10, has_keywords |-> has_keywords,
     keywords |-> <<<<"a", "i">>, <<"G", "P", "T">>>>]
DefaultConfig == RankingConfig(FALSE, FALSE)

\* a weights mapping with the seven keys, and one with two
FullWeights == [num |-> [k \in WeightKeys |-> TenthsDefault(k)], den |-> 10]
PartialWeights == [num |-> [k \in {"likes", "recency"} |-> 5], den |-> 10]

\* the hour at which the model starts; the hour turns at most once
StartHour == 2
MaxClock == StartHour + 1

\* a row persisted by an earlier run
OldRow(i) == NewRow(Tweet(i, TextA, 0, 0, 0, 0, 0), 0)

\* DatabaseManager() on a file earlier runs may have written
InitDb ==
    /\ store \in {[i \in S |-> OldRow(i)] : S \in SUBSET Ids}
    /\ reports = << >>
    /\ dbOk \in BOOLEAN
    /\ clock = StartHour

\* TweetDeduplicator(db_manager) before its first call
InitDeduplicator ==
    /\ seen_ids = {}
    /\ dd_pc = "idle"
    /\ dd_arg = << >>
    /\ dd_in = << >>
    /\ dd_out = << >>
    /\ dd_oracle = {}
    /\ dd_again = << >>
    /\ dd_oracle2 = {}
    /\ dd_asked = << >>

\* TweetRanker(ranking_config) before its first call
InitRanker ==
    /\ rk_pc = "idle"
    /\ rk_calls = 0
    /\ rk_arg = << >>
    /\ rk_in = << >>
    /\ rk_out = << >>
    /\ rk_order = << >>
    /\ rk_w0 = weights
    /\ config_weights = weights
    /\ rankers = 1
    /\ rk_now = << >>

\* no run of run_daily_collection in progress
NoRun ==
    /\ run_pc = "idle"
    /\ run_raw = << >>
    /\ run_ranked = << >>
    /\ run_top = << >>
    /\ run_report = "none"

\* config['report'] as main() loads it
ReportConfig(daily_tweet_count, deepseek_enabled) ==
    [daily_tweet_count |-> daily_tweet_count,
     deepseek_enabled |-> deepseek_enabled]

\* the process before its first run
InitPipeline ==
    /\ NoRun
    /\ runs = 0
    /\ outbox = << >>

\* no save_tweets call made yet by a caller of its own
InitSaver ==
    /\ sv_arg = << >>
    /\ sv_result = FALSE
    /\ sv_asked = None
    /\ sv_answer = FALSE
    /\ rp_date = None
    /\ rp_result = None

\* make_api_request not called yet
InitApi ==
    /\ api_pc = "idle"
    /\ api_retry = 0
    /\ api_attempt = 0
    /\ api_log = << >>
    /\ api_result = "none"

\* ------------------------------------------------ SpecDedup: the actions

InitDedup ==
    /\ InitDb
    /\ has_db \in BOOLEAN
    /\ InitDeduplicator
    /\ config = DefaultConfig
    /\ weights = FullWeights
    /\ InitRanker
    /\ report_config = ReportConfig(MaxTopK, FALSE)
    /\ InitPipeline
    /\ InitSaver
    /\ InitApi

\* unique = deduplicator.deduplicate(tweets) for a list of `inputs`
DeduplicateCall(inputs) ==
    /\ dd_pc = "idle"
    /\ \E tweets \in inputs :
         LET r == deduplicate(tweets, seen_ids, Db(store, reports, dbOk), has_db)
         IN /\ dd_arg' = tweets
            /\ dd_in' = r.tweets
            /\ dd_out' = r.out
            /\ seen_ids' = r.seen
            /\ store' = r.db.tweets
            /\ reports' = r.db.reports
            /\ dd_oracle' = OracleIds(Db(store, reports, dbOk), has_db)
            /\ dd_asked' = r.asked
    /\ dd_pc' = "called"
    /\ UNCHANGED <<dbOk, clock, has_db, dd_again, dd_oracle2, rkVars, plVars,
                   svVars, apiVars>>

Deduplicate == DeduplicateCall(DedupInputs)

\* deduplicator.deduplicate(unique): the same instance, on its own output
DeduplicateAgain ==
    /\ dd_pc \in {"called", "saved"}
    /\ LET r == deduplicate(dd_out, seen_ids, Db(store, reports, dbOk), has_db)
       IN /\ dd_again' = r.out
          /\ seen_ids' = r.seen
          /\ store' = r.db.tweets
          /\ reports' = r.db.reports
          /\ dd_oracle2' = OracleIds(Db(store, reports, dbOk), has_db)
    /\ dd_pc' = "again"
    /\ UNCHANGED <<dbOk, clock, has_db, dd_arg, dd_in, dd_out, dd_oracle,
                   dd_asked, rkVars, plVars, svVars, apiVars>>

\* db.save_tweets(unique): the caller persists what survived
SaveUnique ==
    /\ dd_pc = "called"
    /\ LET r == save_tweets(Db(store, reports, dbOk), dd_out, clock)
       IN /\ store' = r.db.tweets
          /\ reports' = r.db.reports
    /\ dd_pc' = "saved"
    /\ UNCHANGED <<dbOk, clock, has_db, seen_ids, dd_arg, dd_in, dd_out,
                   dd_oracle, dd_again, dd_oracle2, dd_asked, rkVars, plVars,
                   svVars, apiVars>>

\* the sqlite file becomes unusable, or usable again, between two calls
DbAvailability ==
    /\ dbOk' = ~dbOk
    /\ UNCHANGED <<store, reports, clock, ddVars, rkVars, plVars, svVars, apiVars>>

NextDedup == Deduplicate \/ DeduplicateAgain \/ SaveUnique \/ DbAvailability

SpecDedup == InitDedup /\ [][NextDedup]_vars

\* ------------------------------------------------- SpecRank: the actions

InitRank ==
    /\ store = << >>
    /\ reports = << >>
    /\ dbOk = TRUE
    /\ clock = StartHour
    /\ has_db = FALSE
    /\ InitDeduplicator
    /\ config \in {RankingConfig(a, k) : a \in BOOLEAN, k \in BOOLEAN}
    /\ weights \in {FullWeights, PartialWeights}
    /\ InitRanker
    /\ report_config = ReportConfig(MaxTopK, FALSE)
    /\ InitPipeline
    /\ InitSaver
    /\ InitApi

\* what datetime.now() returns while the tweets of a list of length n are
\* scored, when the hour turns after the first `turn` of them
Nows(n, now, turn) == [i \in 1..n |-> IF i <= turn THEN now ELSE now + 1]

\* ranked = ranker.rank(tweets) for a list of `inputs`; the hour may turn
\* while a short list is scored
RankCall(inputs) ==
    /\ rk_pc = "idle"
    /\ rk_calls < MaxCalls
    /\ \E tweets \in inputs :
       \E turn \in {t \in 0..Len(tweets) :
                      t = Len(tweets)
                      \/ (Len(tweets) <= MaxBatch /\ clock < MaxClock)} :
       \E nows \in {Nows(Len(tweets), clock, turn)} :
       \E r \in {rank(tweets, weights, config, nows)} :
            /\ rk_arg' = tweets
            /\ rk_in' = r.tweets
            /\ rk_out' = r.ranked
            /\ rk_order' = r.order
            /\ weights' = r.w
            /\ config_weights' = r.w
            /\ rk_pc' = IF r.ok THEN "returned" ELSE "raised"
            /\ rk_now' = nows
            /\ clock' = IF turn < Len(tweets) THEN clock + 1 ELSE clock
    /\ rk_w0' = weights
    /\ rk_calls' = rk_calls + 1
    /\ UNCHANGED <<store, reports, dbOk, config, rankers, ddVars, plVars,
                   svVars, apiVars>>

Rank == RankCall(RankInputs)

\* between two calls the weights are read from the configuration file anew
Forget_resets ==
    /\ rk_pc # "idle"
    /\ rk_pc' = "idle"
    /\ rk_arg' = << >>
    /\ rk_in' = << >>
    /\ rk_out' = << >>
    /\ rk_order' = << >>
    /\ rk_now' = << >>
    /\ weights' = FullWeights
    /\ rk_w0' = FullWeights
    /\ UNCHANGED <<dbVars, ddVars, config, config_weights, rankers, rk_calls,
                   plVars, svVars, apiVars>>

\* the caller is done with the lists of the last call
Forget ==
    /\ rk_pc # "idle"
    /\ rk_pc' = "idle"
    /\ rk_arg' = << >>
    /\ rk_in' = << >>
    /\ rk_out' = << >>
    /\ rk_order' = << >>
    /\ rk_now' = << >>
    /\ rk_w0' = weights
    /\ UNCHANGED <<dbVars, ddVars, config, weights, config_weights, rankers,
                   rk_calls, plVars, svVars, apiVars>>

NextRank == Rank \/ Forget

SpecRank == InitRank /\ [][NextRank]_vars

\* ------------------------------------------------ SpecScore: the actions

\* the counts of the tweets whose scores are compared
Counts == {0, MaxCount}

\* the tweets whose scores are compared: every count in Counts, every hour
\* up to the start for created_at
ScoreTweets ==
    {Tweet(1, TextA, c, l, r, p, q) :
        c \in 0..StartHour, l \in Counts, r \in Counts, p \in Counts,
        q \in Counts}

\* a tweet with one field set to another value: a count, None where the
\* source of the tweet left the field null
OneFieldChanged(t) ==
    {[t EXCEPT !.likes = v] : v \in (Counts \cup {None}) \ {t.likes}}
    \cup {[t EXCEPT !.retweets = v] : v \in (Counts \cup {None}) \ {t.retweets}}
    \cup {[t EXCEPT !.replies = v] : v \in (Counts \cup {None}) \ {t.replies}}
    \cup {[t EXCEPT !.quotes = v] : v \in (Counts \cup {None}) \ {t.quotes}}
    \cup {[t EXCEPT !.created_at = v] :
             v \in (0..StartHour \cup {None, NotADate}) \ {t.created_at}}
    \cup {[t EXCEPT !.content = v] : v \in {TextA, TextB, TextC} \ {t.content}}

\* the lists of two tweets that differ in one field
ScoreInputs == UNION {{<<a, b>> : b \in OneFieldChanged(a)} : a \in ScoreTweets}

\* a weights mapping with the seven keys, three of them 0
SparseWeights ==
    [num |-> [k \in WeightKeys |->
                IF k \in {"likes", "replies", "recency"} THEN 0
                ELSE TenthsDefault(k)],
     den |-> 10]

\* a ranking_config whose keywords list is empty
EmptyKeywordsConfig == [RankingConfig(FALSE, TRUE) EXCEPT !.keywords = << >>]

InitScore ==
    /\ store = << >>
    /\ reports = << >>
    /\ dbOk = TRUE
    /\ clock = StartHour
    /\ has_db = FALSE
    /\ InitDeduplicator
    /\ config \in {RankingConfig(FALSE, k) : k \in BOOLEAN}
                    \cup {EmptyKeywordsConfig}
    /\ weights \in {FullWeights, PartialWeights, SparseWeights}
    /\ InitRanker
    /\ report_config = ReportConfig(MaxTopK, FALSE)
    /\ InitPipeline
    /\ InitSaver
    /\ InitApi

\* ranker.rank([a, b]) for two tweets that differ in one field
ScorePair == RankCall(ScoreInputs)

NextScore == ScorePair \/ Forget

SpecScore == InitScore /\ [][NextScore]_vars

\* ------------------------------------------------ SpecLearn: the actions

\* a tweet liked 11 times and a tweet never liked: ten of the first and one
\* of the second have mean likes of 10, the ten alone of 11
HotTweet == Tweet(1, TextA, 0, 11, 0, 0, 0)
ColdTweet == Tweet(2, TextB, 0, 0, 0, 0, 0)

\* the batches of TopN + 1 items: the never-liked tweet first, and last
LongInputs ==
    {<<ColdTweet>> \o Padded(<< >>, HotTweet, TopN),
     Padded(<< >>, HotTweet, TopN) \o <<ColdTweet>>}

\* the batches around the length from which auto-learning runs: a short
\* list continued with one tweet up to 5 and up to 6 items; and the batches
\* longer than the part _adjust_weights is handed
LearnInputs ==
    {Padded(p, t, n) :
        p \in SeqUpTo(RankTweets, MaxBatch - 1), t \in RankTweets,
        n \in {AutoLearnMinBatch, AutoLearnMinBatch + 1}}
    \cup LongInputs

\* a weights mapping with the seven keys, every weight 0
ZeroWeights == [num |-> [k \in WeightKeys |-> 0], den |-> 10]

InitLearn ==
    /\ store = << >>
    /\ reports = << >>
    /\ dbOk = TRUE
    /\ clock = StartHour
    /\ has_db = FALSE
    /\ InitDeduplicator
    /\ config \in {RankingConfig(a, FALSE) : a \in BOOLEAN}
    /\ weights \in {FullWeights, PartialWeights, ZeroWeights}
    /\ InitRanker
    /\ report_config = ReportConfig(MaxTopK, FALSE)
    /\ InitPipeline
    /\ InitSaver
    /\ InitApi

\* ranker.rank(tweets) on a batch of 5 or of 6 tweets
Learn == RankCall(LearnInputs)

NextLearn == Learn \/ Forget

SpecLearn == InitLearn /\ [][NextLearn]_vars

\* ------------------------------------------------- SpecEdge: the actions

\* the empty list and the lists of one tweet
EdgeInputs == {<< >>} \cup {<<t>> : t \in RankTweets}

\* a caller with one Deduplicator and one Ranker
InitEdge ==
    /\ InitDb
    /\ has_db \in BOOLEAN
    /\ InitDeduplicator
    /\ config \in {RankingConfig(a, FALSE) : a \in BOOLEAN}
    /\ weights = FullWeights
    /\ InitRanker
    /\ report_config = ReportConfig(MaxTopK, FALSE)
    /\ InitPipeline
    /\ InitSaver
    /\ InitApi

\* deduplicator.deduplicate(tweets) on the empty list or a list of one
DeduplicateEdge == DeduplicateCall(EdgeInputs)

\* ranker.rank(tweets) on the empty list or a list of one
RankEdge == RankCall(EdgeInputs)

NextEdge == DeduplicateEdge \/ RankEdge \/ Forget \/ DbAvailability

SpecEdge == InitEdge /\ [][NextEdge]_vars

\* ------------------------------------------------ SpecStore: the actions

\* a tweet as rank hands it on, scored at the start hour
Ranked(tweet) ==
    Scored(tweet, calculate_score(tweet, FullWeights, DefaultConfig, StartHour))

\* what save_tweets is handed: for each of two ids the tweet an old row was
\* made from, and the ranked tweet of that id with another text, another
\* date and other counts; for id 1 also a ranked tweet without a date
StoreTweets ==
    {Tweet(1, TextA, 0, 0, 0, 0, 0),
     Ranked(Tweet(1, TextB, 1, MaxCount, MaxCount, MaxCount, MaxCount)),
     Ranked(Tweet(1, TextB, None, MaxCount, 0, 0, 0)),
     Tweet(2, TextA, 0, 0, 0, 0, 0),
     Ranked(Tweet(2, TextB, 1, MaxCount, MaxCount, MaxCount, MaxCount))}

StoreInputs == SeqUpTo(StoreTweets, MaxSaveLen)

InitStore ==
    /\ store \in {<< >>, [i \in {1} |-> OldRow(i)]}
    /\ reports = << >>
    /\ dbOk = TRUE
    /\ clock = StartHour
    /\ has_db = TRUE
    /\ InitDeduplicator
    /\ config = DefaultConfig
    /\ weights = FullWeights
    /\ InitRanker
    /\ report_config = ReportConfig(MaxTopK, FALSE)
    /\ InitPipeline
    /\ InitSaver
    /\ InitApi

\* ok = db.save_tweets(tweets) for a list of `inputs`
SaveCall(inputs) ==
    /\ \E tweets \in inputs :
         \E r \in {save_tweets(Db(store, reports, dbOk), tweets, clock)} :
            /\ store' = r.db.tweets
            /\ reports' = r.db.reports
            /\ sv_arg' = tweets
            /\ sv_result' = r.result
    /\ UNCHANGED <<dbOk, clock, ddVars, rkVars, plVars, sv_asked, sv_answer,
                   rp_date, rp_result, apiVars>>

SaveBatch == SaveCall(StoreInputs)

NextStore == SaveBatch

SpecStore == InitStore /\ [][NextStore]_vars

\* -------------------------------------------------- SpecApi: the actions

\* the status codes a response can carry, around the limits the code tests
Statuses == {199, 200, 299, 300, 404, 429, 499, 500, 503}

\* what requests.request can do on one attempt: raise a RequestException
\* (status None), or return a response with a status code and a body that
\* is a JSON object, the JSON null, or no JSON
Outcomes ==
    {[status |-> None, body |-> "text"]}
    \cup [status : Statuses, body : {"object", "null", "text"}]

\* status codes with a branch that may `continue`: 429 and 500 and above
Retryable_from_400(status) == status >= 400

Retryable(status) == status = 429 \/ status >= 500

\* the value returned for a 2xx response: response.json(), or the dict
\* built from response.text when the body is no JSON
Returned(outcome) ==
    CASE outcome.body = "object" -> "json"
      [] outcome.body = "null" -> "none"
      [] outcome.body = "text" -> "text"

\* make_api_request(url, ..., retry_count): up to the for statement; with
\* retry_count 0 the loop has no iteration and the call returns None
CallApi ==
    /\ api_pc = "idle"
    /\ \E retry_count \in 0..MaxRetry :
         /\ api_retry' = retry_count
         /\ api_pc' = IF retry_count = 0 THEN "returned" ELSE "looping"
    /\ api_attempt' = 0
    /\ api_log' = << >>
    /\ api_result' = "none"
    /\ UNCHANGED <<dbVars, ddVars, rkVars, plVars, svVars>>

\* one iteration of the for loop: one requests.request and what follows it
Attempt ==
    /\ api_pc = "looping"
    /\ \E outcome \in Outcomes :
         /\ api_log' = Append(api_log, outcome)
         /\ IF outcome.status = None
            THEN \* except requests.RequestException
                 IF api_attempt < api_retry - 1
                 THEN /\ api_attempt' = api_attempt + 1
                      /\ api_pc' = "looping"
                      /\ api_result' = api_result
                 ELSE /\ api_pc' = "returned"
                      /\ api_result' = "none"
                      /\ api_attempt' = api_attempt
            ELSE IF outcome.status >= 200 /\ outcome.status < 300
            THEN /\ api_pc' = "returned"
                 /\ api_result' = Returned(outcome)
                 /\ api_attempt' = api_attempt
            ELSE IF Retryable(outcome.status) /\ api_attempt < api_retry - 1
            THEN \* time.sleep(...); continue
                 /\ api_attempt' = api_attempt + 1
                 /\ api_pc' = "looping"
                 /\ api_result' = api_result
            ELSE /\ api_pc' = "returned"
                 /\ api_result' = "none"
                 /\ api_attempt' = api_attempt
    /\ UNCHANGED <<dbVars, ddVars, rkVars, plVars, svVars, api_retry>>

InitApiCall ==
    /\ store = << >>
    /\ reports = << >>
    /\ dbOk = TRUE
    /\ clock = StartHour
    /\ has_db = FALSE
    /\ InitDeduplicator
    /\ config = DefaultConfig
    /\ weights = FullWeights
    /\ InitRanker
    /\ report_config = ReportConfig(MaxTopK, FALSE)
    /\ InitPipeline
    /\ InitSaver
    /\ InitApi

NextApi == CallApi \/ Attempt

\* every attempt ends: requests.request is given timeout=30 and the sleeps
\* are finite
SpecApi == InitApiCall /\ [][NextApi]_vars /\ WF_vars(Attempt)

\* ------------------------------------------------ SpecOwner: the actions

\* the batches handed to the Rankers of one configuration: one tweet, and
\* one tweet six times
OwnerInputs ==
    {Padded(<< >>, t, n) : t \in RankTweets, n \in {1, AutoLearnMinBatch + 1}}

\* main() has loaded the configuration and the first TweetRanker has been
\* constructed from config['ranking']
InitOwner ==
    /\ store = << >>
    /\ reports = << >>
    /\ dbOk = TRUE
    /\ clock = StartHour
    /\ has_db = FALSE
    /\ InitDeduplicator
    /\ config \in {RankingConfig(a, FALSE) : a \in BOOLEAN}
    /\ weights = FullWeights
    /\ InitRanker
    /\ report_config = ReportConfig(MaxTopK, FALSE)
    /\ InitPipeline
    /\ InitSaver
    /\ InitApi

\* ranker = TweetRanker(config['ranking']), once more from the same config:
\* self.weights = ranking_config.get('weights', {})
Construct ==
    /\ rk_pc = "idle"
    /\ rankers < MaxRankers
    /\ rankers' = rankers + 1
    /\ weights' = config_weights
    /\ rk_w0' = config_weights
    /\ UNCHANGED <<dbVars, ddVars, config, config_weights, rk_pc, rk_calls,
                   rk_arg, rk_in, rk_out, rk_order, rk_now, plVars, svVars,
                   apiVars>>

RankOwned == RankCall(OwnerInputs)

NextOwner == RankOwned \/ Forget \/ Construct

SpecOwner == InitOwner /\ [][NextOwner]_vars

\* ----------------------------------------------- SpecOracle: the actions

\* the lists of at most one tweet
OracleInputs == {<< >>} \cup {<<t>> : t \in StoreTweets}

\* DatabaseManager() on a new file
InitOracle ==
    /\ store = << >>
    /\ reports = << >>
    /\ dbOk \in BOOLEAN
    /\ clock = StartHour
    /\ has_db = TRUE
    /\ InitDeduplicator
    /\ config = DefaultConfig
    /\ weights = FullWeights
    /\ InitRanker
    /\ report_config = ReportConfig(MaxTopK, FALSE)
    /\ InitPipeline
    /\ InitSaver
    /\ InitApi

SaveOne == SaveCall(OracleInputs)

\* answer = db.is_duplicate_tweet(tweet_id)
AskOracle ==
    /\ \E tweet_id \in Ids :
         \E r \in {is_duplicate_tweet(Db(store, reports, dbOk), tweet_id)} :
            /\ store' = r.db.tweets
            /\ reports' = r.db.reports
            /\ sv_asked' = tweet_id
            /\ sv_answer' = r.result
    /\ UNCHANGED <<dbOk, clock, ddVars, rkVars, plVars, sv_arg, sv_result,
                   rp_date, rp_result, apiVars>>

NextOracle == SaveOne \/ AskOracle \/ DbAvailability

SpecOracle == InitOracle /\ [][NextOracle]_vars

\* ----------------------------------------------- SpecReport: the actions

\* the timestamps handed to save_report on its own: every instant of the
\* seconds 0..MaxSecond
ReportStamps == 0..((MaxSecond + 1) * SubSecond - 1)

\* the analysis texts handed to save_report, by kind
ReportTexts == {"analysis", "fallback"}

\* DatabaseManager() on a new file: _init_db has created both tables
InitReport ==
    /\ store = << >>
    /\ reports = << >>
    /\ dbOk = TRUE
    /\ clock = StartHour
    /\ has_db = TRUE
    /\ InitDeduplicator
    /\ config = DefaultConfig
    /\ weights = FullWeights
    /\ InitRanker
    /\ report_config = ReportConfig(MaxTopK, FALSE)
    /\ InitPipeline
    /\ InitSaver
    /\ InitApi

\* report_id = db.save_report(analysis, date)
SaveReportAt ==
    /\ \E date \in ReportStamps, analysis \in ReportTexts :
         \E r \in {save_report(Db(store, reports, dbOk), analysis, date)} :
            /\ store' = r.db.tweets
            /\ reports' = r.db.reports
            /\ rp_date' = date
            /\ rp_result' = r.result
    /\ UNCHANGED <<dbOk, clock, ddVars, rkVars, plVars, sv_arg, sv_result,
                   sv_asked, sv_answer, apiVars>>

NextReport == SaveReportAt \/ DbAvailability

SpecReport == InitReport /\ [][NextReport]_vars

\* ----------------------------------------------------- Spec: the actions

\* DeepSeekAnalyzer.analyze(tweets): the text it returns, by kind; api_ok
\* is whether _call_api brought a response
analyze(tweets, api_ok) ==
    IF tweets = << >> THEN "no tweets to analyse"
    ELSE IF api_ok THEN "analysis" ELSE "analysis failed"

\* send_daily_report without the return on an empty list
send_daily_report_unguarded(tweets, analysis, smtp_ok) ==
    [result |-> smtp_ok,
     mail |-> IF smtp_ok
              THEN <<[tweets |-> tweets, analysis |-> analysis]>>
              ELSE << >>]

\* EmailSender.send_daily_report(tweets, analysis): [result, mail];
\* smtp_ok is whether _send_email got the mail accepted
send_daily_report(tweets, analysis, smtp_ok) ==
    IF tweets = << >> THEN [result |-> FALSE, mail |-> << >>]
    ELSE [result |-> smtp_ok,
          mail |-> IF smtp_ok
                   THEN <<[tweets |-> tweets, analysis |-> analysis]>>
                   ELSE << >>]

\* what collector.collect() can return: the tweets of the last day, each id
\* once; the third is the first seen again with more likes
CollectTweets ==
    {Tweet(1, TextA, 0, 24, 18, 0, 0),
     Tweet(2, TextB, 0, 24, 18, 0, 0),
     Tweet(1, TextA, 0, 36, 18, 0, 0)}
CollectInputs ==
    {tweets \in SeqUpTo(CollectTweets, MaxBatch) :
        \A i, j \in 1..Len(tweets) : tweets[i].id = tweets[j].id => i = j}

Init ==
    /\ store \in {[i \in S |-> OldRow(i)] : S \in {{}, {1}}}
    /\ reports = << >>
    /\ dbOk = TRUE
    /\ clock = StartHour
    /\ has_db = FALSE
    /\ InitDeduplicator
    /\ config = RankingConfig(FALSE, TRUE)
    /\ weights = FullWeights
    /\ InitRanker
    /\ report_config \in {ReportConfig(MaxTopK, e) : e \in BOOLEAN}
    /\ InitPipeline
    /\ InitSaver
    /\ InitApi

\* db = DatabaseManager(); raw_tweets = collector.collect()
Collect ==
    /\ run_pc = "idle"
    /\ runs < MaxRuns
    /\ \E tweets \in CollectInputs : run_raw' = tweets
    /\ run_pc' = "collected"
    /\ runs' = runs + 1
    /\ UNCHANGED <<dbVars, ddVars, rkVars, report_config, run_ranked, run_top,
                   run_report, outbox, svVars, apiVars>>

\* the run with top_tweets cut from the list as collected, not as ranked
RankTop_slices_raw ==
    /\ run_pc = "collected"
    /\ \E r \in {rank(run_raw, weights, config,
                      Nows(Len(run_raw), clock, Len(run_raw)))} :
         /\ weights' = r.w
         /\ config_weights' = r.w
         /\ IF r.ok
            THEN /\ run_raw' = r.tweets
                 /\ run_ranked' = r.ranked
                 /\ run_top' = Prefix(r.tweets, report_config.daily_tweet_count)
                 /\ run_pc' = "ranked"
            ELSE /\ run_raw' = << >>
                 /\ run_ranked' = << >>
                 /\ run_top' = << >>
                 /\ run_pc' = "idle"
    /\ rankers' = rankers + 1
    /\ UNCHANGED <<dbVars, ddVars, config, rk_pc, rk_calls, rk_arg, rk_in,
                   rk_out, rk_order, rk_w0, rk_now, report_config, runs,
                   run_report, outbox, svVars, apiVars>>

\* ranker = TweetRanker(config['ranking']); ranked_tweets =
\* ranker.rank(raw_tweets); top_tweets = ranked_tweets[:daily_tweet_count].
\* An exception of rank ends the run.
RankTop ==
    /\ run_pc = "collected"
    /\ \E r \in {rank(run_raw, weights, config,
                      Nows(Len(run_raw), clock, Len(run_raw)))} :
         /\ weights' = r.w
         /\ config_weights' = r.w
         /\ IF r.ok
            THEN /\ run_raw' = r.tweets
                 /\ run_ranked' = r.ranked
                 /\ run_top' = Prefix(r.ranked, report_config.daily_tweet_count)
                 /\ run_pc' = "ranked"
            ELSE /\ run_raw' = << >>
                 /\ run_ranked' = << >>
                 /\ run_top' = << >>
                 /\ run_pc' = "idle"
    /\ rankers' = rankers + 1
    /\ UNCHANGED <<dbVars, ddVars, config, rk_pc, rk_calls, rk_arg, rk_in,
                   rk_out, rk_order, rk_w0, rk_now, report_config, runs,
                   run_report, outbox, svVars, apiVars>>

\* analysis_report = analyzer.analyze(top_tweets), or the fixed text when
\* deepseek is not enabled
Analyze ==
    /\ run_pc = "ranked"
    /\ IF report_config.deepseek_enabled
       THEN \E api_ok \in BOOLEAN : run_report' = analyze(run_top, api_ok)
       ELSE run_report' = "analysis not enabled"
    /\ run_pc' = "analyzed"
    /\ UNCHANGED <<dbVars, ddVars, rkVars, report_config, runs, run_raw,
                   run_ranked, run_top, outbox, svVars, apiVars>>

\* db.save_tweets(top_tweets)
SaveTweets ==
    /\ run_pc = "analyzed"
    /\ \E r \in {save_tweets(Db(store, reports, dbOk), run_top, clock)} :
         /\ store' = r.db.tweets
         /\ reports' = r.db.reports
    /\ run_pc' = "tweets_saved"
    /\ UNCHANGED <<dbOk, clock, ddVars, rkVars, report_config, runs, run_raw,
                   run_ranked, run_top, run_report, outbox, svVars, apiVars>>

\* db.save_report(analysis_report, datetime.now())
SaveReport ==
    /\ run_pc = "tweets_saved"
    /\ \E r \in {save_report(Db(store, reports, dbOk), run_report,
                            HourStart(clock))} :
         /\ store' = r.db.tweets
         /\ reports' = r.db.reports
    /\ run_pc' = "report_saved"
    /\ UNCHANGED <<dbOk, clock, ddVars, rkVars, report_config, runs, run_raw,
                   run_ranked, run_top, run_report, outbox, svVars, apiVars>>

\* email_sender.send_daily_report(top_tweets, analysis_report);
\* return top_tweets, analysis_report
SendReport ==
    /\ run_pc = "report_saved"
    /\ \E smtp_ok \in BOOLEAN :
         outbox' = send_daily_report(run_top, run_report, smtp_ok).mail
    /\ run_pc' = "idle"
    /\ run_raw' = << >>
    /\ run_ranked' = << >>
    /\ run_top' = << >>
    /\ run_report' = "none"
    /\ UNCHANGED <<dbVars, ddVars, rkVars, report_config, runs, svVars, apiVars>>

\* the hour turns between two runs
Tick ==
    /\ run_pc = "idle"
    /\ clock < MaxClock
    /\ clock' = clock + 1
    /\ UNCHANGED <<store, reports, dbOk, ddVars, rkVars, plVars, svVars, apiVars>>

Next ==
    \/ Collect
    \/ RankTop
    \/ Analyze
    \/ SaveTweets
    \/ SaveReport
    \/ SendReport
    \/ Tick
    \/ DbAvailability

Spec == Init /\ [][Next]_vars

\* ------------------------------------------- SpecDedup: the properties

\* the index of the first tweet of `tweets` with this id
FirstIndex(tweets, id) ==
    CHOOSE i \in 1..Len(tweets) :
        /\ tweets[i].id = id
        /\ \A j \in 1..(i - 1) : tweets[j].id # id

\* how often an id occurs in a list
Occurrences(tweets, id) == Cardinality({i \in 1..Len(tweets) : tweets[i].id = id})

\* C1: the output of deduplicate holds no two items with one id, and for
\* an id that occurs more than once in the input the item kept, if any, is
\* the first occurrence of that id in the input.
C1_NoDuplicateFirstKept ==
    /\ \A i, j \in 1..Len(dd_out) : i # j => dd_out[i].id # dd_out[j].id
    /\ \A k \in 1..Len(dd_out) :
         /\ Occurrences(dd_arg, dd_out[k].id) >= 1
         /\ Occurrences(dd_arg, dd_out[k].id) > 1
              => dd_out[k] = dd_arg[FirstIndex(dd_arg, dd_out[k].id)]

\* C1 witness: an id came twice with two texts, and the first one was kept
C1_Witness ==
    /\ dd_pc = "called"
    /\ \E i, j \in 1..Len(dd_arg) :
         /\ i < j
         /\ dd_arg[i].id = dd_arg[j].id
         /\ dd_arg[i] # dd_arg[j]
         /\ \E k \in 1..Len(dd_out) : dd_out[k] = dd_arg[i]

\* C2: with an oracle configured, every input item whose id the oracle
\* reports duplicate is absent from the output, also an id that occurs
\* once in the batch.
C2_OracleDuplicatesDropped ==
    has_db =>
        \A i \in 1..Len(dd_arg) :
            dd_arg[i].id \in dd_oracle
                => \A k \in 1..Len(dd_out) : dd_out[k].id # dd_arg[i].id

\* C2 witness: an id that occurs once in the batch is known to the oracle,
\* next to an id that is not
C2_Witness ==
    /\ dd_pc = "called"
    /\ has_db
    /\ dd_out # << >>
    /\ \E i \in 1..Len(dd_arg) :
         /\ dd_arg[i].id \in dd_oracle
         /\ Occurrences(dd_arg, dd_arg[i].id) = 1

\* C3: the output is a subsequence of the input, the survivors standing in
\* the order of their first appearance; nothing is added or reordered.
C3_OrderPreserved ==
    /\ \A k \in 1..Len(dd_out) :
         /\ \E i \in 1..Len(dd_arg) : dd_arg[i].id = dd_out[k].id
         /\ dd_out[k] = dd_arg[FirstIndex(dd_arg, dd_out[k].id)]
    /\ \A k, l \in 1..Len(dd_out) :
         k < l => FirstIndex(dd_arg, dd_out[k].id) < FirstIndex(dd_arg, dd_out[l].id)

\* C3 witness: two survivors, with a dropped duplicate between or after them
C3_Witness ==
    /\ dd_pc = "called"
    /\ Len(dd_out) >= 2
    /\ Len(dd_arg) > Len(dd_out)

\* C4: deduplicate on its own output, on the same instance and with the
\* oracle answering as it did for the first call, returns that output.
C4_Idempotent ==
    (dd_pc = "again" /\ dd_oracle2 = dd_oracle) => dd_again = dd_out

\* C4 witness: the second call ran on a non-empty output from which the
\* first call had removed something, the oracle unchanged
C4_Witness ==
    /\ dd_pc = "again"
    /\ dd_oracle2 = dd_oracle
    /\ dd_oracle # {}
    /\ dd_out # << >>
    /\ Len(dd_arg) > Len(dd_out)

\* the first occurrence of every id of a list, in order
FirstOccurrences(tweets) ==
    LET keep == {i \in 1..Len(tweets) :
                    \A j \in 1..(i - 1) : tweets[j].id # tweets[i].id}
        F[i \in 0..Len(tweets)] ==
            IF i = 0 THEN << >>
            ELSE IF i \in keep THEN Append(F[i - 1], tweets[i]) ELSE F[i - 1]
    IN F[Len(tweets)]

C6_ReadOnly ==
    [][(dd_pc' \in {"called", "again"} /\ dd_pc' # dd_pc)
          => /\ store' = store
             /\ reports' = reports
             /\ dd_in' = dd_arg']_vars

\* C6 witness: a call that asked the oracle about an id it does not hold
C6_Witness ==
    /\ dd_pc = "called"
    /\ has_db
    /\ dbOk
    /\ \E i \in 1..Len(dd_arg) : dd_arg[i].id \notin DOMAIN store

\* -------------------------------------------- SpecRank: the properties

\* the tweet with its two derived fields blanked
Unscored(tweet) ==
    [tweet EXCEPT !.rank_score = NoScore, !.rank_reason = NoReason]

\* C8: the output of rank is a permutation of its input (the same items,
\* none added or dropped) in non-increasing order of rank_score, an unset
\* score counting as 0.
C8_SortedPermutation ==
    rk_pc = "returned" =>
        /\ Len(rk_out) = Len(rk_arg)
        /\ \A i \in 1..Len(rk_arg) :
             Cardinality({k \in 1..Len(rk_order) : rk_order[k] = i}) = 1
        /\ \A k \in 1..Len(rk_out) :
             /\ rk_out[k] = rk_in[rk_order[k]]
             /\ Unscored(rk_out[k]) = Unscored(rk_arg[rk_order[k]])
        /\ \A k, l \in 1..Len(rk_out) :
             k < l =>
                LET a == IF rk_out[k].rank_score = NoScore THEN RatZero
                         ELSE rk_out[k].rank_score
                    b == IF rk_out[l].rank_score = NoScore THEN RatZero
                         ELSE rk_out[l].rank_score
                IN RatGE(a, b)

\* C8 witness: rank returned a list in another order than it was given
C8_Witness ==
    /\ rk_pc = "returned"
    /\ Len(rk_out) >= 3
    /\ \E k \in 1..Len(rk_order) : rk_order[k] # k
    /\ \E k, l \in 1..Len(rk_out) : rk_out[k].rank_score # rk_out[l].rank_score

\* C9: the sort is stable: two items of equal rank_score stand in the
\* output in the order they had in the input.
C9_StableSort ==
    rk_pc = "returned" =>
        \A k, l \in 1..Len(rk_out) :
            (k < l /\ rk_out[k].rank_score = rk_out[l].rank_score)
                => rk_order[k] < rk_order[l]

\* C9 witness: two different tweets of equal score, and the list reordered
C9_Witness ==
    /\ rk_pc = "returned"
    /\ \E k \in 1..Len(rk_order) : rk_order[k] # k
    /\ \E k, l \in 1..Len(rk_out) :
         /\ k < l
         /\ rk_out[k].rank_score = rk_out[l].rank_score
         /\ rk_out[k].id # rk_out[l].id

\* the weight of a key at the start of the last call, as the claim gives
\* it: the mapping's value, else 0.3, 0.4, 0.1, 0.2, 0.5, 0.6, 0.7
C10_Weight(key) ==
    IF key \in DOMAIN rk_w0.num THEN Rat(rk_w0.num[key], rk_w0.den)
    ELSE CASE key = "likes" -> Rat(3, 10)
           [] key = "retweets" -> Rat(4, 10)
           [] key = "replies" -> Rat(1, 10)
           [] key = "quotes" -> Rat(2, 10)
           [] key = "recency" -> Rat(5, 10)
           [] key = "user_influence" -> Rat(6, 10)
           [] key = "keywords_match" -> Rat(7, 10)

C10_Engagement(t) ==
    RatAdd(RatAdd(RatScale(C10_Weight("likes"), t.likes),
                  RatScale(C10_Weight("retweets"), t.retweets)),
           RatAdd(RatScale(C10_Weight("replies"), t.replies),
                  RatScale(C10_Weight("quotes"), t.quotes)))

C10_Recency(t, now) ==
    IF ~IsDatetime(t.created_at) THEN RatZero
    ELSE RatMul(C10_Weight("recency"),
                Rat(ExpTable[now - t.created_at + 1], 1000))

C10_Influence == C10_Weight("user_influence")

C10_Keywords(t) ==
    IF ~config.has_keywords \/ config.keywords = << >> THEN RatZero
    ELSE RatScale(RatDiv(C10_Weight("keywords_match"), Len(config.keywords)),
                  Cardinality({k \in 1..Len(config.keywords) :
                      Contains(Lower(t.content), Lower(config.keywords[k]))}))

\* C10: the rank_score rank sets is the plain sum of four components:
\* engagement (the weighted sum of likes, retweets, replies, quotes),
\* recency, influence (the user_influence weight, the same for every
\* item) and keywords, each with the weights the Ranker had when the call
\* began, a key missing from the mapping taking its default.
C10_ScoreIsSumOfFour ==
    rk_pc \in {"returned", "raised"} =>
        \A i \in 1..Len(rk_in) :
            /\ rk_in[i].rank_score # NoScore
            /\ Rat(rk_in[i].rank_score.num, rk_in[i].rank_score.den)
                 = RatAdd(RatAdd(C10_Engagement(rk_arg[i]),
                                 C10_Recency(rk_arg[i], rk_now[i])),
                          RatAdd(C10_Influence, C10_Keywords(rk_arg[i])))

\* C10 witness: a call with keys missing from the mapping, keywords
\* configured and matched, and the weights adjusted by that same call
C10_Witness ==
    /\ rk_pc = "returned"
    /\ DOMAIN rk_w0.num # WeightKeys
    /\ weights # rk_w0
    /\ \E i \in 1..Len(rk_in) : C10_Keywords(rk_arg[i]) # RatZero
    /\ \E i \in 1..Len(rk_in) : rk_in[i].likes > 0

\* ------------------------------------------- SpecScore: the properties

\* the tweets a and b differ in the field `key` and in nothing else
DifferOnlyIn(a, b, key) ==
    /\ a[key] # b[key]
    /\ [a EXCEPT ![key] = b[key]] = b

\* the rank_score of the first tweet is strictly below that of the second
ScoredBelow(a, b) ==
    /\ a.rank_score # NoScore
    /\ b.rank_score # NoScore
    /\ ~RatGE(a.rank_score, b.rank_score)

\* C11: for a fixed configuration and a fixed now, of two items that differ
\* only in one engagement metric whose weight is positive, the one with the
\* larger metric gets the strictly higher rank_score.
C11_ScoreMonotone ==
    rk_pc = "returned" =>
        \A i, j \in 1..Len(rk_arg) :
        \A key \in {"likes", "retweets", "replies", "quotes"} :
            (/\ rk_now[i] = rk_now[j]
             /\ DifferOnlyIn(rk_arg[i], rk_arg[j], key)
             /\ rk_arg[i][key] # None
             /\ rk_arg[j][key] # None
             /\ rk_arg[i][key] < rk_arg[j][key]
             /\ C10_Weight(key).num > 0)
                => ScoredBelow(rk_in[i], rk_in[j])

\* C11 witness: two tweets scored at one hour that differ in their
\* retweets only, under a mapping without the key retweets
C11_Witness ==
    /\ rk_pc = "returned"
    /\ Len(rk_arg) = 2
    /\ rk_now[1] = rk_now[2]
    /\ "retweets" \notin DOMAIN rk_w0.num
    /\ DifferOnlyIn(rk_arg[1], rk_arg[2], "retweets")
    /\ rk_arg[1].retweets > rk_arg[2].retweets
    /\ rk_arg[2].retweets # None
    /\ ScoredBelow(rk_in[2], rk_in[1])

\* the recency component of a tweet as the call computed it, over
\* ScoreDen(rk_w0, config)
C12_RecencyComponent(i) ==
    ScoreComponents(rk_arg[i], rk_w0, config, rk_now[i])[2].score

C13_NullEngagementTolerated ==
    (rk_pc # "idle" /\ \E i \in 1..Len(rk_arg) : Unscorable(rk_arg[i])) =>
        /\ rk_pc = "returned"
        /\ Len(rk_out) = Len(rk_arg)
        /\ \A i \in 1..Len(rk_in) : rk_in[i].rank_score # NoScore

\* ------------------------------------------ SpecLearn: the properties

\* the last call was one in which auto-learning is due: the flag is set
\* and the batch has more than 5 items
LearningDue == config.auto_learning /\ Len(rk_arg) > 5

\* the items _adjust_weights was handed: the first 10 of the sorted list
TopOfLastCall ==
    Prefix([k \in 1..Len(rk_order) |-> rk_in[rk_order[k]]], 10)

\* the mean of an engagement field over those items exceeds
\* min_engagement_threshold
MeanAbove(key) ==
    SumField(TopOfLastCall, 1, key)
        > config.min_engagement * Len(TopOfLastCall)

\* the value of a configured weight after the increments of the last call
\* and before the normalization
AfterIncrements(key) ==
    RatAdd(Rat(rk_w0.num[key], rk_w0.den),
           IF key \in {"likes", "retweets", "replies", "quotes"}
              /\ MeanAbove(key)
           THEN Rat(config.lr_num, config.lr_den) ELSE RatZero)

\* the sum of the configured weights after the increments, as a numerator
\* over rk_w0.den * config.lr_den
TotalAfterIncrements ==
    SumOver(DOMAIN rk_w0.num,
            [key \in DOMAIN rk_w0.num |->
               rk_w0.num[key] * config.lr_den
               + IF key \in {"likes", "retweets", "replies", "quotes"}
                    /\ MeanAbove(key)
                 THEN config.lr_num * rk_w0.den ELSE 0])

\* C15: auto-learning runs only when auto_learning is enabled and the batch
\* has more than 5 items: after every other rank call the weights are the
\* weights from before the call.
C15_LearningOnlyWhenDue ==
    (rk_pc # "idle" /\ ~LearningDue) => weights = rk_w0

\* C15 witness: a batch of exactly 5 items whose mean likes exceed the
\* threshold, ranked with auto_learning enabled, the weights untouched
C15_Witness ==
    /\ rk_pc = "returned"
    /\ config.auto_learning
    /\ Len(rk_arg) = 5
    /\ MeanAbove("likes")
    /\ weights = rk_w0

\* C16: after an adjustment pass whose weights sum to more than 0 after the
\* increments, every configured weight is its incremented value divided by
\* that one total, so the weights sum to 1; this after every call of a
\* succession of calls.
C16_WeightsSumToOne ==
    (rk_pc = "returned" /\ LearningDue /\ TotalAfterIncrements > 0) =>
        /\ DOMAIN weights.num = DOMAIN rk_w0.num
        /\ SumOver(DOMAIN weights.num, weights.num) = weights.den
        /\ \A key \in DOMAIN weights.num :
              Rat(weights.num[key], weights.den)
                 = RatDiv(RatScale(AfterIncrements(key),
                                   rk_w0.den * config.lr_den),
                          TotalAfterIncrements)

\* C16 witness: the second adjustment pass on one Ranker, with likes
\* incremented and the other weights only divided
C16_Witness ==
    /\ rk_pc = "returned"
    /\ LearningDue
    /\ rk_calls >= 2
    /\ SumOver(DOMAIN rk_w0.num, rk_w0.num) = rk_w0.den
    /\ MeanAbove("likes")
    /\ ~MeanAbove("retweets")
    /\ weights # rk_w0

\* C17: when the weights sum to zero after the increments, the pass skips
\* the normalization: no division error, rank returns the ranked batch,
\* and the weights keep their values from after the increments.
C17_ZeroSumSkipped ==
    (rk_pc # "idle" /\ LearningDue /\ TotalAfterIncrements = 0) =>
        /\ rk_pc = "returned"
        /\ Len(rk_out) = Len(rk_arg)
        /\ DOMAIN weights.num = DOMAIN rk_w0.num
        /\ \A key \in DOMAIN weights.num :
              Rat(weights.num[key], weights.den) = AfterIncrements(key)

\* C17 witness: a Ranker whose weights are all 0 has ranked 6 items none of
\* whose mean counts exceeds the threshold
C17_Witness ==
    /\ rk_pc = "returned"
    /\ LearningDue
    /\ DOMAIN rk_w0.num = WeightKeys
    /\ TotalAfterIncrements = 0
    /\ Len(rk_out) = 6

\* the weight of a key under the mapping w: its value, else the default
RefWeight(w, key) ==
    IF key \in DOMAIN w.num THEN Rat(w.num[key], w.den)
    ELSE Rat(TenthsDefault(key), 10)

\* the score of the tweet t at the hour now under the mapping w
RefScore(t, w, cfg, now) ==
    LET engagement ==
            RatAdd(RatAdd(RatScale(RefWeight(w, "likes"), t.likes),
                          RatScale(RefWeight(w, "retweets"), t.retweets)),
                   RatAdd(RatScale(RefWeight(w, "replies"), t.replies),
                          RatScale(RefWeight(w, "quotes"), t.quotes)))
        recency ==
            IF ~IsDatetime(t.created_at) THEN RatZero
            ELSE RatMul(RefWeight(w, "recency"),
                        Rat(ExpTable[now - t.created_at + 1], 1000))
        keywords ==
            IF ~cfg.has_keywords \/ cfg.keywords = << >> THEN RatZero
            ELSE RatScale(RatDiv(RefWeight(w, "keywords_match"),
                                 Len(cfg.keywords)),
                          Cardinality({k \in 1..Len(cfg.keywords) :
                              Contains(Lower(t.content), Lower(cfg.keywords[k]))}))
    IN RatAdd(RatAdd(engagement, recency),
              RatAdd(RefWeight(w, "user_influence"), keywords))

\* a step that is a rank call which returned
CallReturns == rk_calls' # rk_calls /\ rk_pc' = "returned"

\* C18: weight adjustments last as long as the Ranker: no step other than
\* a rank call changes the weights, so every call scores with the weights
\* the calls before it left; and the scores a call stores were computed
\* with the weights in force when it began, not with those it adjusts to.
C18_WeightsPersist ==
    [][/\ rk_calls' = rk_calls => weights' = weights
       /\ CallReturns =>
             \A i \in 1..Len(rk_in') :
                 /\ rk_in'[i].rank_score # NoScore
                 /\ Rat(rk_in'[i].rank_score.num, rk_in'[i].rank_score.den)
                      = RefScore(rk_arg'[i], weights, config, rk_now'[i])]_vars

\* C18 witness: a later call on a Ranker whose weights an earlier call
\* adjusted: it scored with the adjusted weights and adjusted them again
C18_Witness ==
    /\ rk_pc = "returned"
    /\ rk_calls >= 2
    /\ LearningDue
    /\ DOMAIN rk_w0.num = WeightKeys
    /\ SumOver(DOMAIN rk_w0.num, rk_w0.num) = rk_w0.den
    /\ weights # rk_w0
    /\ \A i \in 1..Len(rk_in) :
          Rat(rk_in[i].rank_score.num, rk_in[i].rank_score.den)
             = RefScore(rk_arg[i], rk_w0, config, rk_now[i])

\* ------------------------------------------- SpecEdge: the properties

\* C14: rank([]) returns the empty list without error and leaves the
\* weights as they were, auto_learning enabled or not; deduplicate([])
\* returns the empty list without asking the oracle.
C14_EmptyInputTotal ==
    /\ (rk_pc # "idle" /\ rk_arg = << >>) =>
           /\ rk_pc = "returned"
           /\ rk_out = << >>
           /\ weights = rk_w0
    /\ (dd_pc = "called" /\ dd_arg = << >>) =>
           /\ dd_out = << >>
           /\ dd_asked = << >>

\* C14 witness: rank([]) has returned on a Ranker with auto_learning
\* enabled, and deduplicate([]) on a Deduplicator with a readable store
C14_Witness ==
    /\ rk_pc = "returned"
    /\ rk_arg = << >>
    /\ config.auto_learning
    /\ dd_pc = "called"
    /\ dd_arg = << >>
    /\ has_db
    /\ dbOk
    /\ store # << >>

\* ------------------------------------------------- Spec: the properties

\* C7: in one daily run the collected items pass through the Deduplicator
\* before they reach the Ranker, so whenever a run has ranked, the ranked
\* sequence holds no id twice and no id an earlier run persisted (stated
\* for the runs that find the store readable).
C7_RankedIsDeduplicated ==
    (run_pc = "ranked" /\ dbOk) =>
        /\ \A i, j \in 1..Len(run_ranked) :
              run_ranked[i].id = run_ranked[j].id => i = j
        /\ \A i \in 1..Len(run_ranked) : run_ranked[i].id \notin DOMAIN store

\* the first daily_tweet_count items of the ranked sequence of the run
TopK == Prefix(run_ranked, report_config.daily_tweet_count)

\* a list in non-increasing order of rank_score, every item with its
\* rank_score and rank_reason set
SortedAndPopulated(tweets) ==
    /\ \A i \in 1..Len(tweets) :
          /\ tweets[i].rank_score # NoScore
          /\ tweets[i].rank_reason # NoReason
    /\ \A k, l \in 1..Len(tweets) :
          k < l => RatGE(tweets[k].rank_score, tweets[l].rank_score)

IndexesOf(tweets, id) == {i \in 1..Len(tweets) : tweets[i].id = id}

FirstWith(tweets, id) ==
    tweets[CHOOSE i \in IndexesOf(tweets, id) :
              \A j \in IndexesOf(tweets, id) : i <= j]

LastWith(tweets, id) ==
    tweets[CHOOSE i \in IndexesOf(tweets, id) :
              \A j \in IndexesOf(tweets, id) : i >= j]

\* the row agrees with the tweet on what UPDATE writes
VolatileFrom(row, tweet) ==
    /\ row.likes = tweet.likes
    /\ row.retweets = tweet.retweets
    /\ row.replies = tweet.replies
    /\ row.quotes = tweet.quotes
    /\ row.rank_score = tweet.rank_score
    /\ row.rank_reason = tweet.rank_reason

\* the row agrees with r (a row or a tweet) on what only INSERT writes
FixedFrom(row, r) ==
    /\ row.author = r.author
    /\ row.content = r.content
    /\ row.created_at = r.created_at
    /\ row.url = r.url

\* what a successful save_tweets(tweets) makes of the table old
Upserted(old, tweets, new) ==
    /\ DOMAIN new = DOMAIN old \cup {tweets[i].id : i \in 1..Len(tweets)}
    /\ \A id \in DOMAIN new :
          IF IndexesOf(tweets, id) = {} THEN new[id] = old[id]
          ELSE /\ VolatileFrom(new[id], LastWith(tweets, id))
               /\ IF id \in DOMAIN old THEN FixedFrom(new[id], old[id])
                  ELSE FixedFrom(new[id], FirstWith(tweets, id))

\* C20: save_tweets is an upsert keyed by id. A successful call leaves one
\* row for every id that had one and for every id of its list, and no other;
\* for an id that had a row it sets likes, retweets, replies, quotes,
\* rank_score and rank_reason to the tweet's and leaves author, content,
\* created_at and url as they were; for a new id it inserts the tweet's row;
\* rows of other ids stay; so a list saved again adds no id.
C20_SaveTweetsUpserts ==
    [][(<<sv_arg, sv_result, store>>' # <<sv_arg, sv_result, store>>
        /\ sv_result')
          => /\ Upserted(store, sv_arg', store')
             /\ (\A i \in 1..Len(sv_arg') : sv_arg'[i].id \in DOMAIN store)
                   => DOMAIN store' = DOMAIN store]_vars

\* a successful call has updated the row of an id that had one with a tweet
\* of another text and date, and inserted a row for a new id
C20_Witness ==
    /\ sv_result
    /\ Len(sv_arg) = 2
    /\ sv_arg[1].id # sv_arg[2].id
    /\ \E i, j \in 1..2 :
          /\ store[sv_arg[i].id].content # sv_arg[i].content
          /\ store[sv_arg[i].id].created_at # sv_arg[i].created_at
          /\ store[sv_arg[i].id].rank_score = sv_arg[i].rank_score
          /\ store[sv_arg[i].id].rank_score # NoScore
          /\ store[sv_arg[i].id].likes = MaxCount
          /\ store[sv_arg[j].id] = NewRow(sv_arg[j], clock)

\* ------------------------------------------ SpecOracle: the properties

\* C21 as the specification words it: is_duplicate_tweet answers membership
\* in the persisted history whatever the state of the database file, false
\* for an id no save_tweets call has persisted, true for an id a successful
\* save_tweets call has persisted, and the table stays as it was.
C21_OracleAnswersHistory ==
    [][<<sv_asked, sv_answer>>' # <<sv_asked, sv_answer>>
          => /\ sv_answer' <=> (sv_asked' \in DOMAIN store)
             /\ store' = store]_vars

\* C21: while sqlite answers, is_duplicate_tweet answers membership in the
\* persisted history: false for an id no save_tweets call has persisted,
\* true for an id a successful save_tweets call has persisted; while sqlite
\* raises it answers false for every id; it never raises and never changes
\* the table.
C21_OracleAnswersReadableHistory ==
    [][<<sv_asked, sv_answer>>' # <<sv_asked, sv_answer>>
          => /\ dbOk => (sv_answer' <=> (sv_asked' \in DOMAIN store))
             /\ ~dbOk => ~sv_answer'
             /\ store' = store]_vars

\* the oracle was asked about an id a successful save_tweets call persisted
\* and answered true, the table as the save left it
C21_Witness ==
    /\ sv_result
    /\ Len(sv_arg) = 1
    /\ sv_asked = sv_arg[1].id
    /\ sv_answer
    /\ dbOk
    /\ DOMAIN store = {sv_asked}
    /\ store[sv_asked] = NewRow(sv_arg[1], clock)

\* ---------------------------------- SpecScore: the reason and the parts

\* the components of item i of the last call as the call computed them,
\* over ScoreDen(rk_w0, config)
ComponentsOf(i) == ScoreComponents(rk_arg[i], rk_w0, config, rk_now[i])

\* C22: the rank_reason rank sets lists exactly four components, in the
\* order engagement, recency, influence, keywords, each "factor: value" with
\* the value rounded to two decimals, separated by ", " with nothing after
\* the last; the values are those of the components whose sum is rank_score
\* (so the listed values add up to the score within four roundings).
C22_ReasonListsComponents ==
    rk_pc = "returned" =>
        \A i \in 1..Len(rk_in) :
            LET reason == rk_in[i].rank_reason
                score == rk_in[i].rank_score
                parts == ComponentsOf(i)
                listed == reason[1].value + reason[2].value
                          + reason[3].value + reason[4].value
            IN /\ Len(reason) = 4
               /\ [k \in 1..4 |-> reason[k].factor]
                     = <<"engagement", "recency", "influence", "keywords">>
               /\ [k \in 1..4 |-> reason[k].sep] = <<", ", ", ", ", ", "">>
               /\ \A k \in 1..4 :
                     reason[k].value = Round2(parts[k].score, score.den)
               /\ score.num = parts[1].score + parts[2].score
                              + parts[3].score + parts[4].score
               /\ listed * score.den - 100 * score.num <= 2 * score.den
               /\ 100 * score.num - listed * score.den <= 2 * score.den

\* a call returned an item whose four listed values are all positive and
\* whose recency value was rounded
C22_Witness ==
    /\ rk_pc = "returned"
    /\ Len(rk_in) = 2
    /\ \A k \in 1..4 : rk_in[1].rank_reason[k].value > 0
    /\ (100 * ComponentsOf(1)[2].score) % rk_in[1].rank_score.den # 0

\* ------------------------------- SpecLearn: what the adjustment inspects

\* the first 10 items of the list the last call returned
Inspected == Prefix(rk_out, 10)

\* the arithmetic mean of a field over the inspected items is strictly
\* greater than min_engagement_threshold
InspectedMeanAbove(key) ==
    SumField(Inspected, 1, key) > config.min_engagement * Len(Inspected)

\* the value of a weight after the last call, before the normalization:
\* the normalization divided every weight by the total after the increments
BeforeNormalization(key) ==
    IF TotalAfterIncrements > 0
    THEN RatMul(Rat(weights.num[key], weights.den),
                Rat(TotalAfterIncrements, rk_w0.den * config.lr_den))
    ELSE Rat(weights.num[key], weights.den)

\* C23: an adjustment pass inspects the first 10 items of the ranked list
\* (all of a shorter one); the weight of likes, retweets, replies or quotes
\* is raised by learning_rate before the normalization exactly when the mean
\* of that field over those items is strictly above the threshold; the
\* weights of recency, user_influence and keywords_match are never raised.
C23_IncrementsFromTopTen ==
    (rk_pc = "returned" /\ LearningDue) =>
        \A key \in DOMAIN rk_w0.num :
            LET before == Rat(rk_w0.num[key], rk_w0.den)
                raised == RatAdd(before, Rat(config.lr_num, config.lr_den))
            IN /\ BeforeNormalization(key) \in {before, raised}
               /\ BeforeNormalization(key) = raised
                     <=> /\ key \in {"likes", "retweets", "replies", "quotes"}
                         /\ InspectedMeanAbove(key)

\* a batch of 11 items was ranked whose mean likes over all items are 10 and
\* over the first 10 ranked are 11; the weight of likes was raised, no other
C23_Witness ==
    /\ rk_pc = "returned"
    /\ LearningDue
    /\ Len(rk_out) = 11
    /\ rk_arg[1].likes = 0
    /\ rk_out[11].likes = 0
    /\ SumField(rk_out, 1, "likes") = config.min_engagement * Len(rk_out)
    /\ InspectedMeanAbove("likes")
    /\ BeforeNormalization("likes")
          = RatAdd(Rat(rk_w0.num["likes"], rk_w0.den),
                   Rat(config.lr_num, config.lr_den))
    /\ BeforeNormalization("recency") = Rat(rk_w0.num["recency"], rk_w0.den)

\* ------------------------------------------- SpecOwner: the properties

\* C24: the Ranker owns its weights. They change only in the auto-learning
\* step of a rank call (no other step, and no call in which auto-learning
\* is not due, changes them); no step changes the weights of the
\* configuration the Ranker was constructed from, so a Ranker constructed
\* later from that configuration starts from the configured weights.
C24_RankerOwnsWeights ==
    [][/\ (rk_calls' = rk_calls
           \/ ~(config.auto_learning /\ Len(rk_arg') > AutoLearnMinBatch))
             => weights' = weights
       /\ config_weights' = config_weights
       /\ rankers' # rankers => weights' = config_weights]_vars

\* --------------------------------- SpecScore: an item without a date

\* the item handed to the last call at index i has no usable created_at
Undated(i) == ~IsDatetime(rk_arg[i].created_at)

\* C25: an item whose created_at is missing or is no timestamp raises no
\* exception; its recency component is 0 and its rank_score is the sum of
\* its engagement, influence and keywords components.
C25_UndatedScoresNoRecency ==
    /\ (rk_pc # "idle"
        /\ \A i \in 1..Len(rk_arg) : ~Unscorable(rk_arg[i]))
          => rk_pc = "returned"
    /\ rk_pc = "returned" =>
          \A i \in 1..Len(rk_arg) :
              Undated(i) =>
                  /\ ComponentsOf(i)[2].score = 0
                  /\ rk_in[i].rank_reason[2].value = 0
                  /\ rk_in[i].rank_score.num
                        = ComponentsOf(i)[1].score + ComponentsOf(i)[3].score
                          + ComponentsOf(i)[4].score
                  /\ Rat(rk_in[i].rank_score.num, rk_in[i].rank_score.den)
                        = RefScore([rk_arg[i] EXCEPT !.created_at = None],
                                   rk_w0, config, rk_now[i])

\* a call with a positive recency weight returned a dated item and the same
\* item with a string for created_at, and one with None: the dated one
\* scored higher
C25_Witness ==
    /\ rk_pc = "returned"
    /\ Len(rk_arg) = 2
    /\ C10_Weight("recency").num > 0
    /\ DifferOnlyIn(rk_arg[1], rk_arg[2], "created_at")
    /\ ~Undated(1)
    /\ rk_arg[2].created_at = NotADate
    /\ rk_in[2].rank_reason[2].value = 0
    /\ rk_in[1].rank_reason[2].value > 0
    /\ ScoredBelow(rk_in[2], rk_in[1])

\* ----------------------------------- SpecScore: the keywords component

\* how many of the keywords "ai" and "GPT" occur in a text, letter case
\* aside: "AI" holds one, "news" none, "GptAi" both
MatchesIn(content) ==
    CASE content = TextA -> 1
      [] content = TextB -> 0
      [] content = TextC -> 2

\* the keywords component of item i of the last call
KeywordsComponent(i) ==
    Rat(ComponentsOf(i)[4].score, ScoreDen(rk_w0, config))

MissingAndDue(key) ==
    /\ key \in {"likes", "retweets", "replies", "quotes"}
    /\ key \notin DOMAIN rk_w0.num
    /\ MeanAbove(key)

\* C27: a weight key the configured mapping lacks is treated by the
\* adjustment as scoring treats it, as its default: rank on more than 5
\* items with auto_learning on returns the ranked batch even when the mean
\* of that metric is above the threshold, and the key then has a weight.
C27_MissingWeightAsDefault ==
    (rk_pc # "idle" /\ LearningDue
     /\ \E key \in WeightKeys : MissingAndDue(key)) =>
        /\ rk_pc = "returned"
        /\ Len(rk_out) = Len(rk_arg)
        /\ \A key \in WeightKeys : MissingAndDue(key) => key \in DOMAIN weights.num

\* ---------------------------------------------- Spec: a run of no tweets

\* the run in progress collected nothing
EmptyRun == run_pc # "idle" /\ run_raw = << >>

\* C28: a run whose collection returned no item goes through every stage
\* without an exception: rank returns the empty list, save_tweets returns
\* False and writes no row, send_daily_report returns False and no mail is
\* sent, and the run ends after it. (A step that leaves run_pc as it is is
\* no statement of the run.)
C28_EmptyRunCompletes ==
    [][(EmptyRun /\ run_pc' # run_pc) =>
          /\ run_pc = "collected" =>
                /\ run_pc' = "ranked"
                /\ run_ranked' = << >>
                /\ run_top' = << >>
          /\ run_pc = "ranked" => run_pc' = "analyzed"
          /\ run_pc = "analyzed" =>
                /\ run_pc' = "tweets_saved"
                /\ ~save_tweets(Db(store, reports, dbOk), run_top, clock).result
                /\ store' = store
          /\ run_pc = "tweets_saved" => run_pc' = "report_saved"
          /\ run_pc = "report_saved" =>
                /\ run_pc' = "idle"
                /\ \A smtp_ok \in BOOLEAN :
                      ~send_daily_report(run_top, run_report, smtp_ok).result
                /\ outbox' = << >>]_vars

\* a first run mailed its tweet; the second run collected nothing, saved
\* its report and is about to end: the table holds the first run's row only
C28_Witness ==
    /\ runs = 2
    /\ run_pc = "report_saved"
    /\ run_raw = << >>
    /\ run_top = << >>
    /\ outbox # << >>
    /\ Cardinality(DOMAIN store) = 1
    /\ store[CHOOSE id \in DOMAIN store : TRUE].collection_date < clock

\* --------------------------------------------- SpecApi: the properties

\* the attempt got a response with a 2xx status
Is2xx(outcome) ==
    outcome.status # None /\ outcome.status >= 200 /\ outcome.status < 300

\* what an attempt may be retried after: a 429 response, a 5xx response, or
\* an exception of the request
MayRetryAfter(outcome) ==
    \/ outcome.status = None
    \/ outcome.status = 429
    \/ outcome.status \in 500..599

\* what a call has done so far is within the claim
WithinRetryCount ==
    /\ Len(api_log) <= api_retry
    /\ (api_pc = "returned" /\ api_result # "none") =>
          \E i \in 1..Len(api_log) : Is2xx(api_log[i])
    /\ \A i \in 1..Len(api_log) :
          (i < Len(api_log) \/ api_pc = "looping") =>
              /\ MayRetryAfter(api_log[i])
              /\ i < api_retry
    /\ (api_pc = "returned" /\ api_log # << >>
        /\ ~Is2xx(api_log[1]) /\ ~MayRetryAfter(api_log[1])) =>
          /\ Len(api_log) = 1
          /\ api_result = "none"

\* C29: make_api_request ends after at most retry_count HTTP attempts. It
\* returns something other than None only if an attempt got a 2xx response;
\* it makes another attempt only after a 429, a 5xx or a request exception,
\* and only while attempts remain; after any other status outside 2xx it
\* returns None at once.
C29_BoundedRetries ==
    /\ []WithinRetryCount
    /\ (api_pc = "looping") ~> (api_pc = "returned")

\* a call with retry_count 3 met a 429, then an exception, then a 200 with a
\* JSON body, and returned that body
C29_Witness ==
    /\ api_pc = "returned"
    /\ api_retry = 3
    /\ Len(api_log) = 3
    /\ api_log[1].status = 429
    /\ api_log[2].status = None
    /\ api_log[3].status = 200
    /\ api_result = "json"

\* a step of save_report: every call that is not a repetition of the last
\* failed call changes the recorded timestamp, the recorded result or the
\* table
ReportCall == <<rp_date, rp_result, reports>>' # <<rp_date, rp_result, reports>>

\* the report rows other than the one of id are the same before and after
\* the step, and the row of id is new and holds the timestamp handed in
AddsOneRow(id) ==
    /\ id \notin DOMAIN reports
    /\ DOMAIN reports' = DOMAIN reports \cup {id}
    /\ \A k \in DOMAIN reports : reports'[k] = reports[k]
    /\ reports'[id].date = rp_date'

\* no two report rows of one second: every row is stored under the id of
\* its own timestamp
ReportIdsUnique == \A k \in DOMAIN reports : ReportId(reports[k].date) = k

\* what every save_report call does whatever the database: a call in a
\* second that has a row returns None, and a call that returns None leaves
\* both tables as they were
FailedSaveChangesNothing ==
    /\ store' = store
    /\ ReportId(rp_date') \in DOMAIN reports => rp_result' = None
    /\ rp_result' = None => reports' = reports
    /\ rp_result' # None => /\ rp_result' = ReportId(rp_date')
                            /\ AddsOneRow(rp_result')

\* C30 as the specification words it: report ids are unique, a save_report
\* in the second of a stored report returns None and leaves the rows
\* unchanged, and every save_report in a second without a stored report
\* returns its id and adds exactly one row.
C30_ReportIdsUnique ==
    /\ []ReportIdsUnique
    /\ [][ReportCall
            => /\ FailedSaveChangesNothing
               /\ ReportId(rp_date') \notin DOMAIN reports
                     => rp_result' = ReportId(rp_date')]_vars

\* C30: report ids are unique, a save_report in the second of a stored
\* report returns None, a save_report that returns None leaves the rows
\* unchanged, and while sqlite answers every save_report in a second
\* without a stored report returns its id and adds exactly one row; while
\* sqlite raises, save_report returns None in every second.
C30_ReportIdsUniqueWhileWritable ==
    /\ []ReportIdsUnique
    /\ [][ReportCall
            => /\ FailedSaveChangesNothing
               /\ (dbOk /\ ReportId(rp_date') \notin DOMAIN reports)
                     => rp_result' = ReportId(rp_date')
               /\ ~dbOk => rp_result' = None]_vars

\* two reports of two seconds are stored, and the last save_report, at
\* another instant of the second of one of them, returned None and left the
\* row of that second with its first timestamp
C30_Witness ==
    /\ dbOk
    /\ rp_date # None
    /\ rp_result = None
    /\ Cardinality(DOMAIN reports) = 2
    /\ ReportId(rp_date) \in DOMAIN reports
    /\ reports[ReportId(rp_date)].date # rp_date

====
